---- MODULE Spec2Model ----
(***************************************************************************)
(* Model of the reverse-shell session multiplexer of cap:                  *)
(*   src/src/shell/session.rs   ShellSession, ShellSessionManager          *)
(*   src/src/shell/terminal.rs  InteractiveTerminal (output tick, keys)    *)
(* Each async handler is split at the await points where another task can  *)
(* observe an intermediate state (lock acquisition, channel hand-over).    *)
(***************************************************************************)
EXTENDS Integers, Sequences, FiniteSets, TLC

\* ------------------------------------------------------------------ bounds
\* MaxSessions: sessions ever registered.  MaxEvents: external events in one
\* behaviour (accepted connections, remote chunks and faults, operator keys,
\* sweeps, registry calls that find their session).
MaxSessions == 2
MaxEvents == 2
\* MaxStabEvents: external events besides the accepted connection in a
\* behaviour that follows one registration through its stabilization.
MaxStabEvents == 1
\* MaxTermEvents: external events in a behaviour of the attached terminal.
MaxTermEvents == 3
\* MaxListenEvents: external events in a behaviour of the listener.
MaxListenEvents == 4
\* MaxSweepEvents: external events in a behaviour under the periodic sweep.
MaxSweepEvents == 2
\* MaxMenuEvents: keys and calls in a behaviour of the menu.
MaxMenuEvents == 5
\* MaxParseChunks: chunks the remote end has sent when the stabilizer parses.
MaxParseChunks == 3
\* MaxDisconnects: calls of handle_disconnect on one session.
MaxDisconnects == 4
\* MaxBufSize: largest max_size of an OutputBuffer; MaxBufCalls: calls on it.
MaxBufSize == 2
MaxBufCalls == 4
\* MaxAuditEntries: calls of AuditLogger::log.
MaxAuditEntries == 3
\* MaxRenderCalls: calls made on one TerminalRenderer.
MaxRenderCalls == 5

\* ------------------------------------------------------- program constants
max_reconnect_attempts == 3

NoSession == 0
SessionIds == 1..MaxSessions

\* Text is modelled as sequences of code points / bytes.
NL == 10
ConnLostNotice == <<-1>>
NetErrNotice == <<-2>>
WriteErrNotice == <<-3>>
FlushErrNotice == <<-4>>
Notices == {ConnLostNotice, NetErrNotice, WriteErrNotice, FlushErrNotice}

\* The six probe lines of stabilize_shell, in program order; each already
\* ends with a newline.
StabilizeCmds ==
  << <<101, NL>>, <<102, NL>>, <<103, NL>>, <<104, NL>>, <<105, NL>>, <<106, NL>> >>

\* Byte chunks the remote end may produce in one read: ASCII 'a', the
\* well-formed two-byte sequence C3 A9, and a lone lead byte C3.
RemoteChunks == { <<97>>, <<195, 169>>, <<195>> }

\* Keys the operator may press while the terminal loop is running.
Keys == {"char", "up", "esc"}

\* The same with Ctrl-C, Tab, Home and Ctrl-D.
TermKeys == Keys \cup {"ctrl_c", "tab", "home", "ctrl_d"}

\* The bytes the operator's terminal emits for a key.
KeySequence(k) ==
  IF k = "char" THEN <<120>>
  ELSE IF k = "up" THEN <<27, 91, 65>>
  ELSE IF k = "home" THEN <<27, 91, 72>>
  ELSE IF k = "esc" THEN <<27>>
  ELSE IF k = "ctrl_c" THEN <<3>>
  ELSE IF k = "ctrl_d" THEN <<4>>
  ELSE <<9>>

\* ---------------------------------------------------------- pure functions
RECURSIVE from_utf8_lossy(_)
\* String::from_utf8_lossy over the byte alphabet {0x61, 0xC3, 0xA9}: a
\* well-formed sequence decodes to its code point, every other byte becomes
\* U+FFFD.
from_utf8_lossy(b) ==
  IF b = <<>> THEN <<>>
  ELSE IF b[1] < 128 THEN <<b[1]>> \o from_utf8_lossy(Tail(b))
  ELSE IF b[1] = 195 /\ Len(b) >= 2 /\ b[2] = 169
       THEN <<233>> \o from_utf8_lossy(Tail(Tail(b)))
  ELSE <<65533>> \o from_utf8_lossy(Tail(b))

RECURSIVE as_bytes(_)
\* UTF-8 encoding of a string, as written by print! / write_all.
as_bytes(s) ==
  IF s = <<>> THEN <<>>
  ELSE IF s[1] = 233 THEN <<195, 169>> \o as_bytes(Tail(s))
  ELSE IF s[1] = 65533 THEN <<239, 191, 189>> \o as_bytes(Tail(s))
  ELSE <<s[1]>> \o as_bytes(Tail(s))

\* send_command's normalisation: a newline is appended unless the command
\* already ends with one.
WithNewline(cmd) ==
  IF cmd /= <<>> /\ cmd[Len(cmd)] = NL THEN cmd ELSE Append(cmd, NL)

\* The string handle_key_event passes to send_command for a key.
KeyText(k) ==
  IF k = "char" THEN <<120>>
  ELSE IF k = "up" THEN <<27, 91, 65>>
  ELSE IF k = "ctrl_c" THEN <<3>>
  ELSE IF k = "tab" THEN <<9>>
  ELSE <<>>

RECURSIVE Flatten(_)
Flatten(q) == IF q = <<>> THEN <<>> ELSE q[1] \o Flatten(Tail(q))

\* --------------------------------------------- stabilize_shell's parsing
\* Option<T>: None is the empty sequence, Some(x) is << x >>.
None == <<>>
Some(x) == << x >>

\* ShellMetadata as ShellSession::new builds it (the fields stabilize_shell
\* may write).
UnknownMetadata ==
  [os_type |-> None, hostname |-> None, username |-> None, privilege |-> "Unknown"]

\* The literals the parser looks for, as code points.
TxtLinux == << 76, 105, 110, 117, 120 >>
TxtDarwin == << 68, 97, 114, 119, 105, 110 >>
TxtWindows == << 87, 105, 110, 100, 111, 119, 115 >>
TxtMicrosoft == << 77, 105, 99, 114, 111, 115, 111, 102, 116 >>
TxtHostname == << 104, 111, 115, 116, 110, 97, 109, 101 >>
TxtCOMPUTERNAME == << 67, 79, 77, 80, 85, 84, 69, 82, 78, 65, 77, 69 >>
TxtWhoami == << 119, 104, 111, 97, 109, 105 >>
TxtUSERNAME == << 85, 83, 69, 82, 78, 65, 77, 69 >>
TxtRootAt == << 114, 111, 111, 116, 64 >>
TxtHashPrompt == << 35, 32 >>
TxtAdministrator == << 65, 100, 109, 105, 110, 105, 115, 116, 114, 97, 116, 111, 114 >>
TxtSYSTEM == << 83, 89, 83, 84, 69, 77 >>
TxtDollarPrompt == << 36, 32 >>
TxtDriveC == << 67, 58, 92 >>
TxtPsPrompt == << 80, 83, 32, 62 >>

\* str::contains.
Contains(s, pat) ==
  \E i \in 0..(Len(s) - Len(pat)) : SubSeq(s, i + 1, i + Len(pat)) = pat

\* Position of the first c in s, or Len(s) + 1.
IndexOf(s, c) ==
  IF \E i \in 1..Len(s) : s[i] = c
  THEN CHOOSE i \in 1..Len(s) : s[i] = c /\ \A j \in 1..(i - 1) : s[j] /= c
  ELSE Len(s) + 1

\* A line without the carriage return str::lines strips from its end.
StripCr(l) == IF l /= <<>> /\ l[Len(l)] = 13 THEN SubSeq(l, 1, Len(l) - 1) ELSE l

RECURSIVE Lines(_)
\* str::lines: split at newlines; a final newline opens no further line.
Lines(s) ==
  IF s = <<>> THEN <<>>
  ELSE LET i == IndexOf(s, NL) IN
         << StripCr(SubSeq(s, 1, i - 1)) >> \o Lines(SubSeq(s, i + 1, Len(s)))

\* str::len counts bytes.
ByteLen(l) == Len(as_bytes(l))

\* char::is_alphanumeric on the code points of the model (U+00E9 is a letter,
\* U+FFFD is not).
IsAlphanumeric(c) ==
  \/ c \in 48..57
  \/ c \in 65..90
  \/ c \in 97..122
  \/ c = 233

IsWhitespace(c) == c \in {9, 10, 13, 32}

RECURSIVE Trim(_)
\* str::trim.
Trim(l) ==
  IF l = <<>> THEN l
  ELSE IF IsWhitespace(l[1]) THEN Trim(Tail(l))
  ELSE IF IsWhitespace(l[Len(l)]) THEN Trim(SubSeq(l, 1, Len(l) - 1))
  ELSE l

RECURSIVE AfterLast(_, _)
\* line.split(c).last().
AfterLast(l, c) ==
  IF \E i \in 1..Len(l) : l[i] = c
  THEN AfterLast(SubSeq(l, IndexOf(l, c) + 1, Len(l)), c)
  ELSE l

\* The first element of a sequence of options that is Some, or None.
FirstSome(opts) ==
  IF \E i \in 1..Len(opts) : opts[i] /= None
  THEN opts[CHOOSE i \in 1..Len(opts) :
              opts[i] /= None /\ \A j \in 1..(i - 1) : opts[j] = None]
  ELSE None

ParseOs(output) ==
  IF Contains(output, TxtLinux) THEN Some("Linux")
  ELSE IF Contains(output, TxtDarwin) THEN Some("macOS")
  ELSE IF Contains(output, TxtWindows) \/ Contains(output, TxtMicrosoft)
       THEN Some("Windows")
  ELSE None

\* What one line contributes to the hostname loop.
HostnameOf(l) ==
  IF /\ ~Contains(l, TxtHostname) /\ ~Contains(l, TxtCOMPUTERNAME)
     /\ ByteLen(l) > 2 /\ ByteLen(l) < 50
     /\ \A i \in 1..Len(l) : l[i] \notin {64, 47, 92}
     /\ \A i \in 1..Len(l) : IsAlphanumeric(l[i]) \/ l[i] \in {45, 95, 46}
  THEN Some(Trim(l)) ELSE None

ParseHostname(output) ==
  LET ls == Lines(output) IN FirstSome([i \in 1..Len(ls) |-> HostnameOf(ls[i])])

\* What one line contributes to the username loop.
UsernameOf(l) ==
  IF Contains(l, << 92 >>) /\ ~Contains(l, TxtWhoami)
  THEN Some(Trim(AfterLast(l, 92)))
  ELSE IF /\ ~Contains(l, TxtWhoami) /\ ~Contains(l, TxtUSERNAME)
          /\ ByteLen(l) > 2 /\ ByteLen(l) < 30
          /\ \A i \in 1..Len(l) : IsAlphanumeric(l[i]) \/ l[i] \in {45, 95}
       THEN Some(Trim(l))
  ELSE None

ParseUsername(output) ==
  LET ls == Lines(output) IN FirstSome([i \in 1..Len(ls) |-> UsernameOf(ls[i])])

ParsePrivilege_user_first(output) ==
  IF \/ Contains(output, TxtDollarPrompt) \/ Contains(output, TxtDriveC)
     \/ Contains(output, TxtPsPrompt)
  THEN Some("User")
  ELSE IF \/ Contains(output, TxtRootAt) \/ Contains(output, TxtHashPrompt)
          \/ Contains(output, TxtAdministrator) \/ Contains(output, TxtSYSTEM)
       THEN Some("Root")
  ELSE None

ParsePrivilege(output) ==
  IF \/ Contains(output, TxtRootAt) \/ Contains(output, TxtHashPrompt)
     \/ Contains(output, TxtAdministrator) \/ Contains(output, TxtSYSTEM)
  THEN Some("Root")
  ELSE IF \/ Contains(output, TxtDollarPrompt) \/ Contains(output, TxtDriveC)
          \/ Contains(output, TxtPsPrompt)
       THEN Some("User")
  ELSE None

Determined_reset(parsed, old) == IF parsed /= None THEN parsed[1] ELSE "User"

\* The value a metadata field has after the update_metadata closure: the
\* parsed value when there is one, the previous value otherwise.
Determined(parsed, old) == IF parsed /= None THEN parsed[1] ELSE old

\* The same for an Option field.
DeterminedOpt(parsed, old) == IF parsed /= None THEN parsed ELSE old

\* The closure stabilize_shell passes to update_metadata, applied to meta with
\* output = buffer.join("").
StabilizedMetadata(meta, output) ==
  [os_type |-> DeterminedOpt(ParseOs(output), meta.os_type),
   hostname |-> DeterminedOpt(ParseHostname(output), meta.hostname),
   username |-> DeterminedOpt(ParseUsername(output), meta.username),
   privilege |-> Determined(ParsePrivilege(output), meta.privilege)]


\* ------------------------------------------------------------------- state
VARIABLES
  sessions,            \* keys of ShellSessionManager.sessions (DashMap)
  created,             \* ids for which ShellSession::new has run
  active_session,      \* ShellSessionManager.active_session (NoSession = None)
  state,               \* ShellSession.state
  stream,              \* ShellSession.stream: "some" | "none" (taken and shut down)
  reconnect_attempts,  \* ShellSession.reconnect_attempts
  metadata,            \* ShellSession.metadata (the fields stabilize_shell writes)
  ioPc,                \* position of the handle_io task
  inputQ,              \* input channel (input_tx -> input_rx)
  outputQ,             \* output channel (output_tx -> output_rx)
  output_buffer,       \* ShellSession.output_buffer
  regPc,               \* position of the register_session call that created the id
  stabPc,              \* number of probes stabilize_shell has sent, 7 = finished
  termPc,              \* position of the terminate_session call that removed the id
  cleanupPc,           \* position of cleanup_terminated_sessions
  to_remove,           \* its local to_remove
  snapshot,            \* contents of shell_sessions.json
  in_session,          \* run_loop's local in_session
  lastResult,          \* what the last returning call returned
  eventsLeft,          \* remaining external events: accepts, remote input and
                       \* faults, keys, sweeps, calls that find their session
  accepted,            \* history: chunks for which send_command returned Ok
  written,             \* history: chunks written to the remote socket
  produced,            \* history: byte chunks read from the remote socket
  displayed,           \* history: strings printed by the terminal
  scanned,             \* history: states seen by the last cleanup scan
  renderer,            \* TerminalRenderer: in_alternate_screen, in_raw_mode
  tty,                 \* the terminal itself: screen in use, raw mode
  should_exit,         \* InteractiveTerminal.should_exit
  listener,            \* ShellListener::start: position, result, should_stop, log
  menu,                \* MainMenu: position, session list, selected, result
  announcedBg,         \* history: the terminal has announced that s is Background,
                       \* and s has been Background ever since
  disconnects,         \* the handle_disconnect calls: position, local `attempts`
  out_buf,             \* OutputBuffer: buffer, max_size
  out_io,              \* the OutputBuffer's caller: position, result of the last
                       \* flush; history: entries pushed since the last flush or
                       \* clear, strings printed to stdout
  audit_file           \* the lines of the AuditLogger's log file

vars == << sessions, created, active_session, state, stream, reconnect_attempts,
           metadata,
           ioPc, inputQ, outputQ, output_buffer, regPc, stabPc, termPc,
           cleanupPc, to_remove, snapshot, in_session, lastResult,
           eventsLeft, accepted, written, produced, displayed,
           scanned, renderer, tty, should_exit, listener, menu, announcedBg,
           disconnects, out_buf, out_io, audit_file >>

sessionVars == << sessions, created, active_session, state, stream, reconnect_attempts,
                 metadata >>
ioVars == << ioPc, inputQ, outputQ, output_buffer >>
callVars == << regPc, stabPc, termPc, cleanupPc, to_remove >>
histVars == << accepted, written, produced, displayed, scanned >>
rendVars == << renderer, tty >>
\* What the session registry never touches.
uiVars == << listener, menu >>
\* ShellSession::handle_disconnect's calls, OutputBuffer and AuditLogger.
libVars == << disconnects, out_buf, out_io, audit_file >>
otherVars == << rendVars, should_exit, uiVars, libVars >>

\* announcedBg after a step that is not an announcement: it lasts while the
\* session stays Background.
StillAnnounced ==
  [s \in SessionIds |->
     announcedBg[s] /\ state[s] = "Background" /\ state'[s] = "Background"]

NoResult == [op |-> "none", id |-> NoSession, res |-> "none"]
Result(o, i, r) == [op |-> o, id |-> i, res |-> r]

\* as_bytes applied to every chunk of a queue.
BytesOf(q) == [i \in 1..Len(q) |-> as_bytes(q[i])]

\* No handle_disconnect call has been made.
NoDisconnects == [c \in 1..MaxDisconnects |-> [pc |-> "idle", attempts |-> 0]]

\* No OutputBuffer has been constructed, nothing pushed or printed.
NoOutputBuffer == [buffer |-> << >>, max_size |-> 0]
NoOutput == [pc |-> "none", pushed |-> << >>, stdout |-> << >>, result |-> "none"]

\* The registry as n completed registrations have left it: every session
\* stabilized, its probes written, its I/O task waiting in select!.  A session
\* in att (at most one) has since been through max_reconnect_attempts
\* handle_disconnect calls.  The first registration found no foreground
\* session and took the pointer.
InitWith(n, att, nEvents) ==
  /\ sessions = 1..n
  /\ created = 1..n
  /\ active_session = IF n = 0 THEN NoSession ELSE 1
  /\ state = [s \in SessionIds |-> IF s \in att THEN "Background" ELSE "Active"]
  /\ stream = [s \in SessionIds |-> "some"]
  /\ reconnect_attempts =
       [s \in SessionIds |-> IF s \in att THEN max_reconnect_attempts ELSE 0]
  /\ metadata = [s \in SessionIds |-> UnknownMetadata]
  /\ ioPc = [s \in SessionIds |-> IF s <= n THEN "select" ELSE "unborn"]
  /\ inputQ = [s \in SessionIds |-> <<>>]
  /\ outputQ = [s \in SessionIds |-> <<>>]
  /\ output_buffer = [s \in SessionIds |-> <<>>]
  /\ regPc = [s \in SessionIds |-> IF s <= n THEN "done" ELSE "none"]
  /\ stabPc = [s \in SessionIds |-> IF s <= n THEN Len(StabilizeCmds) + 1 ELSE 0]
  /\ termPc = [s \in SessionIds |-> "idle"]
  /\ cleanupPc = "idle"
  /\ to_remove = {}
  /\ snapshot = [s \in 1..n |-> "Active"]
  /\ in_session = FALSE
  /\ lastResult = IF n = 0 THEN NoResult ELSE Result("register_session", n, "Ok")
  /\ eventsLeft = nEvents
  /\ accepted = [s \in SessionIds |-> IF s <= n THEN StabilizeCmds ELSE <<>>]
  /\ written = [s \in SessionIds |-> IF s <= n THEN BytesOf(StabilizeCmds) ELSE <<>>]
  /\ produced = [s \in SessionIds |-> <<>>]
  /\ displayed = [s \in SessionIds |-> <<>>]
  /\ scanned = <<>>
  /\ renderer = [in_alternate_screen |-> FALSE, in_raw_mode |-> FALSE]
  /\ tty = [alternate |-> FALSE, raw |-> FALSE]
  /\ should_exit = FALSE
  /\ listener = [pc |-> "init", result |-> "none", should_stop |-> FALSE, log |-> <<>>]
  /\ menu = [pc |-> "closed", sessions |-> <<>>, selected |-> 0, killing |-> NoSession,
             result |-> None]
  /\ announcedBg = [s \in SessionIds |-> FALSE]
  /\ disconnects = NoDisconnects
  /\ out_buf = NoOutputBuffer
  /\ out_io = NoOutput
  /\ audit_file = << >>

Init ==
  \E n \in 0..MaxSessions :
    \E att \in {{}} \cup {{s} : s \in 1..n} : InitWith(n, att, MaxEvents)

\* ---------------------------------------------------------------- helpers
\* save_sessions_to_file: one record per map entry with its current state.
SavedSessions(map, st) == [s \in map |-> st[s]]

\* get_active_session: the pointer followed through the map.
get_active_session ==
  IF active_session /= NoSession /\ active_session \in sessions
  THEN active_session ELSE NoSession

\* UnboundedSender::send fails once the receiver (owned by handle_io) is gone.
ReceiverAlive(s) == ioPc[s] /= "exited"

\* ------------------------------------------------ ShellSession::send_command
\* Effect of send_command(cmd) on session s, reported as r.
send_command(s, cmd, r) ==
  IF ReceiverAlive(s)
  THEN /\ inputQ' = [inputQ EXCEPT ![s] = Append(@, WithNewline(cmd))]
       /\ accepted' = [accepted EXCEPT ![s] = Append(@, WithNewline(cmd))]
       /\ r = "Ok"
  ELSE /\ UNCHANGED << inputQ, accepted >>
       /\ r = "Err"

\* --------------------------------------------------- ShellSession::handle_io
\* The task takes the stream's write lock and keeps it until it returns.
IoStart(s) ==
  /\ ioPc[s] = "start"
  /\ ioPc' = [ioPc EXCEPT ![s] = IF stream[s] = "some" THEN "select" ELSE "exited"]
  /\ inputQ' = [inputQ EXCEPT ![s] = IF stream[s] = "some" THEN @ ELSE <<>>]
  /\ UNCHANGED << sessionVars, outputQ, output_buffer, callVars, snapshot,
                  in_session, lastResult, eventsLeft, histVars >>
  /\ UNCHANGED otherVars
  /\ announcedBg' = StillAnnounced

\* select!: read_buf returned Ok(n), n > 0.
IoReadData(s, chunk) ==
  /\ ioPc[s] = "select"
  /\ eventsLeft > 0
  /\ eventsLeft' = eventsLeft - 1
  /\ output_buffer' = [output_buffer EXCEPT ![s] = Append(@, from_utf8_lossy(chunk))]
  /\ outputQ' = [outputQ EXCEPT ![s] = Append(@, from_utf8_lossy(chunk))]
  /\ produced' = [produced EXCEPT ![s] = Append(@, chunk)]
  /\ ioPc' = [ioPc EXCEPT ![s] = "check"]
  /\ UNCHANGED << sessionVars, inputQ, callVars, snapshot, in_session, lastResult,
                  accepted, written, displayed, scanned >>
  /\ UNCHANGED otherVars
  /\ announcedBg' = StillAnnounced

FaultState_terminated == "Terminated"

\* The state handle_io leaves behind when a branch ends in `break` after a
\* failure: Background.
FaultState == "Background"

\* select!: read_buf returned Ok(0) or Err(e).
IoReadFault(s, notice) ==
  /\ eventsLeft > 0
  /\ eventsLeft' = eventsLeft - 1
  /\ ioPc[s] = "select"
  /\ notice \in {ConnLostNotice, NetErrNotice}
  /\ state' = [state EXCEPT ![s] = FaultState]
  /\ outputQ' = [outputQ EXCEPT ![s] = Append(@, notice)]
  /\ ioPc' = [ioPc EXCEPT ![s] = "exited"]
  /\ inputQ' = [inputQ EXCEPT ![s] = <<>>]
  /\ UNCHANGED << sessions, created, metadata, active_session, stream, reconnect_attempts,
                  output_buffer, callVars, snapshot, in_session, lastResult,
                  histVars >>
  /\ UNCHANGED otherVars
  /\ announcedBg' = StillAnnounced

NextCommand_last(q) == q[Len(q)]

\* The chunk input_rx.recv() hands to the write branch.
NextCommand(q) == Head(q)

\* select!: input_rx.recv() returned Some(command); write_all and flush succeed.
IoWrite(s) ==
  /\ ioPc[s] = "select"
  /\ inputQ[s] /= <<>>
  /\ written' = [written EXCEPT ![s] = Append(@, as_bytes(NextCommand(inputQ[s])))]
  /\ inputQ' = [inputQ EXCEPT ![s] = Tail(@)]
  /\ ioPc' = [ioPc EXCEPT ![s] = "check"]
  /\ UNCHANGED << sessionVars, outputQ, output_buffer, callVars, snapshot, in_session,
                  lastResult, eventsLeft, accepted, produced, displayed, scanned >>
  /\ UNCHANGED otherVars
  /\ announcedBg' = StillAnnounced

\* select!: input_rx.recv() returned Some(command); write_all or flush fails.
IoWriteFault(s, notice) ==
  /\ eventsLeft > 0
  /\ eventsLeft' = eventsLeft - 1
  /\ ioPc[s] = "select"
  /\ inputQ[s] /= <<>>
  /\ notice \in {WriteErrNotice, FlushErrNotice}
  /\ written' = IF notice = FlushErrNotice
                THEN [written EXCEPT ![s] = Append(@, as_bytes(NextCommand(inputQ[s])))]
                ELSE written
  /\ state' = [state EXCEPT ![s] = FaultState]
  /\ outputQ' = [outputQ EXCEPT ![s] = Append(@, notice)]
  /\ ioPc' = [ioPc EXCEPT ![s] = "exited"]
  /\ inputQ' = [inputQ EXCEPT ![s] = <<>>]
  /\ UNCHANGED << sessions, created, metadata, active_session, stream, reconnect_attempts,
                  output_buffer, callVars, snapshot, in_session, lastResult,
                  accepted, produced, displayed, scanned >>
  /\ UNCHANGED otherVars
  /\ announcedBg' = StillAnnounced

\* After a branch that did not break: leave the loop if the session was
\* terminated externally.
IoCheck(s) ==
  /\ ioPc[s] = "check"
  /\ ioPc' = [ioPc EXCEPT ![s] = IF state[s] = "Terminated" THEN "exited" ELSE "select"]
  /\ inputQ' = [inputQ EXCEPT ![s] = IF state[s] = "Terminated" THEN <<>> ELSE @]
  /\ UNCHANGED << sessionVars, outputQ, output_buffer, callVars, snapshot, in_session,
                  lastResult, eventsLeft, histVars >>
  /\ UNCHANGED otherVars
  /\ announcedBg' = StillAnnounced

\* ------------------------------------- ShellSessionManager::register_session
\* ShellSession::new (spawns handle_io), spawn of stabilize_shell, map insert.
\* An accepted connection counts as two events: the connection and the
\* stabilizer run it starts.
RegisterNew ==
  /\ Cardinality(created) < MaxSessions
  /\ eventsLeft > 1
  /\ eventsLeft' = eventsLeft - 2
  /\ LET id == Cardinality(created) + 1 IN
       /\ created' = created \cup {id}
       /\ sessions' = sessions \cup {id}
       /\ ioPc' = [ioPc EXCEPT ![id] = "start"]
       /\ regPc' = [regPc EXCEPT ![id] = "inserted"]
  /\ UNCHANGED << active_session, state, stream, reconnect_attempts, metadata,
                  inputQ, outputQ, output_buffer, stabPc, termPc, cleanupPc,
                  to_remove, snapshot, in_session, lastResult, histVars >>
  /\ UNCHANGED otherVars
  /\ announcedBg' = StillAnnounced

ActiveAfterRegister_always(cur, id) == id

ActiveAfterRegister_inverted(cur, id) == IF cur = NoSession THEN cur ELSE id

\* The pointer after register_session's check under the write lock.
ActiveAfterRegister(cur, id) == IF cur = NoSession THEN id ELSE cur

RegisterSetActive(id) ==
  /\ regPc[id] = "inserted"
  /\ active_session' = ActiveAfterRegister(active_session, id)
  /\ regPc' = [regPc EXCEPT ![id] = "stabilizing"]
  /\ UNCHANGED << sessions, created, metadata, state, stream, reconnect_attempts, ioVars,
                  stabPc, termPc, cleanupPc, to_remove, snapshot, in_session,
                  lastResult, eventsLeft, histVars >>
  /\ UNCHANGED otherVars
  /\ announcedBg' = StillAnnounced

\* stabilize_shell: the next probe; the result of send_command is discarded.
StabilizeSend(id) ==
  /\ regPc[id] \in {"inserted", "stabilizing"}
  /\ stabPc[id] < Len(StabilizeCmds)
  /\ \E r \in {"Ok", "Err"} : send_command(id, StabilizeCmds[stabPc[id] + 1], r)
  /\ stabPc' = [stabPc EXCEPT ![id] = @ + 1]
  /\ UNCHANGED << sessionVars, ioPc, outputQ, output_buffer, regPc, termPc, cleanupPc,
                  to_remove, snapshot, in_session, lastResult, eventsLeft,
                  written, produced, displayed, scanned >>
  /\ UNCHANGED otherVars
  /\ announcedBg' = StillAnnounced

\* stabilize_shell: parse the buffer, update the metadata, clear the buffer.
StabilizeFinish(id) ==
  /\ regPc[id] \in {"inserted", "stabilizing"}
  /\ stabPc[id] = Len(StabilizeCmds)
  /\ metadata' = [metadata EXCEPT
                    ![id] = StabilizedMetadata(@, Flatten(output_buffer[id]))]
  /\ output_buffer' = [output_buffer EXCEPT ![id] = <<>>]
  /\ stabPc' = [stabPc EXCEPT ![id] = Len(StabilizeCmds) + 1]
  /\ UNCHANGED << sessions, created, active_session, state, stream,
                  reconnect_attempts, ioPc, inputQ, outputQ, regPc, termPc,
                  cleanupPc, to_remove, snapshot, in_session, lastResult,
                  eventsLeft, histVars >>
  /\ UNCHANGED otherVars
  /\ announcedBg' = StillAnnounced

StabilizationJoined_detached(id) == TRUE

\* stabilization_handle.await is ready: the stabilize_shell task has run to
\* its end.
StabilizationJoined(id) == stabPc[id] = Len(StabilizeCmds) + 1

\* stabilization_handle.await has completed: save the snapshot and return.
RegisterReturn(id) ==
  /\ regPc[id] = "stabilizing"
  /\ StabilizationJoined(id)
  /\ snapshot' = SavedSessions(sessions, state)
  /\ lastResult' = Result("register_session", id, "Ok")
  /\ regPc' = [regPc EXCEPT ![id] = "done"]
  /\ UNCHANGED << sessionVars, ioVars, stabPc, termPc, cleanupPc, to_remove,
                  in_session, eventsLeft, histVars >>
  /\ UNCHANGED otherVars
  /\ announcedBg' = StillAnnounced

\* ------------------------------------------- ShellSessionManager, by id
\* Ids a caller can name: those register_session has handed out.
Callable == created

set_active_session_unchecked(id) ==
  /\ id \in sessions => eventsLeft > 0
  /\ eventsLeft' = IF id \in sessions THEN eventsLeft - 1 ELSE eventsLeft
  /\ id \in Callable
  /\ active_session' = id
  /\ lastResult' = Result("set_active_session", id, "Ok")
  /\ UNCHANGED << sessions, created, metadata, state, stream, reconnect_attempts,
                  ioVars, callVars, snapshot, in_session, histVars >>
  /\ UNCHANGED otherVars
  /\ announcedBg' = StillAnnounced

set_active_session(id) ==
  /\ id \in sessions => eventsLeft > 0
  /\ eventsLeft' = IF id \in sessions THEN eventsLeft - 1 ELSE eventsLeft
  /\ id \in Callable
  /\ IF id \in sessions
     THEN /\ active_session' = id
          /\ lastResult' = Result("set_active_session", id, "Ok")
     ELSE /\ UNCHANGED active_session
          /\ lastResult' = Result("set_active_session", id, "NotFound")
  /\ UNCHANGED << sessions, created, metadata, state, stream, reconnect_attempts, ioVars,
                  callVars, snapshot, in_session, histVars >>
  /\ UNCHANGED otherVars
  /\ announcedBg' = StillAnnounced

\* The pointer after background_session(id) / terminate_session(id).
ClearIfActive(cur, id) == IF cur = id THEN NoSession ELSE cur

DoBackground_all(id) ==
  /\ state' = [s \in SessionIds |-> "Background"]
  /\ active_session' = ClearIfActive(active_session, id)

\* Effect of background_session(id) for an id that is in the map.
DoBackground(id) ==
  /\ state' = [state EXCEPT ![id] = "Background"]
  /\ active_session' = ClearIfActive(active_session, id)

background_session(id) ==
  /\ id \in sessions => eventsLeft > 0
  /\ eventsLeft' = IF id \in sessions THEN eventsLeft - 1 ELSE eventsLeft
  /\ id \in Callable
  /\ IF id \in sessions
     THEN /\ DoBackground(id)
          /\ lastResult' = Result("background_session", id, "Ok")
     ELSE /\ UNCHANGED << state, active_session >>
          /\ lastResult' = Result("background_session", id, "NotFound")
  /\ UNCHANGED << sessions, created, metadata, stream, reconnect_attempts, ioVars,
                  callVars, snapshot, in_session, histVars >>
  /\ UNCHANGED otherVars
  /\ announcedBg' = StillAnnounced

foreground_session(id) ==
  /\ id \in sessions => eventsLeft > 0
  /\ eventsLeft' = IF id \in sessions THEN eventsLeft - 1 ELSE eventsLeft
  /\ id \in Callable
  /\ IF id \in sessions
     THEN /\ state' = [state EXCEPT ![id] = "Active"]
          /\ active_session' = id
          /\ lastResult' = Result("foreground_session", id, "Ok")
     ELSE /\ UNCHANGED << state, active_session >>
          /\ lastResult' = Result("foreground_session", id, "NotFound")
  /\ UNCHANGED << sessions, created, metadata, stream, reconnect_attempts, ioVars,
                  callVars, snapshot, in_session, histVars >>
  /\ UNCHANGED otherVars
  /\ announcedBg' = StillAnnounced

\* terminate_session(id): sessions.remove(id) found nothing.
TerminateNotFound(id) ==
  /\ id \in Callable
  /\ id \notin sessions
  /\ lastResult' = Result("terminate_session", id, "NotFound")
  /\ UNCHANGED << sessionVars, ioVars, callVars, snapshot, in_session, eventsLeft,
                  histVars >>
  /\ UNCHANGED otherVars
  /\ announcedBg' = StillAnnounced

TerminateRemove_get(id) ==
  /\ eventsLeft > 0
  /\ eventsLeft' = eventsLeft - 1
  /\ id \in sessions
  /\ termPc[id] = "idle"
  /\ termPc' = [termPc EXCEPT ![id] = "removed"]
  /\ UNCHANGED << sessions, created, metadata, active_session, state, stream, reconnect_attempts,
                  ioVars, regPc, stabPc, cleanupPc, to_remove, snapshot, in_session,
                  lastResult, histVars >>
  /\ UNCHANGED otherVars
  /\ announcedBg' = StillAnnounced

\* terminate_session(id): sessions.remove(id) returned the session.
TerminateRemove(id) ==
  /\ eventsLeft > 0
  /\ eventsLeft' = eventsLeft - 1
  /\ id \in sessions
  /\ sessions' = sessions \ {id}
  /\ termPc' = [termPc EXCEPT ![id] = "removed"]
  /\ UNCHANGED << created, metadata, active_session, state, stream, reconnect_attempts, ioVars,
                  regPc, stabPc, cleanupPc, to_remove, snapshot, in_session,
                  lastResult, histVars >>
  /\ UNCHANGED otherVars
  /\ announcedBg' = StillAnnounced

\* ShellSession::terminate: the state write.
TerminateSetState(id) ==
  /\ termPc[id] = "removed"
  /\ state' = [state EXCEPT ![id] = "Terminated"]
  /\ termPc' = [termPc EXCEPT ![id] = "wait_stream"]
  /\ UNCHANGED << sessions, created, metadata, active_session, stream, reconnect_attempts,
                  ioVars, regPc, stabPc, cleanupPc, to_remove, snapshot, in_session,
                  lastResult, eventsLeft, histVars >>
  /\ UNCHANGED otherVars
  /\ announcedBg' = StillAnnounced

\* The stream's write lock is free when handle_io does not hold it.
StreamLockFree(s) == ioPc[s] \notin {"select", "check"}

\* ShellSession::terminate: stream.write().await, take() and shutdown().
TerminateShutdown(id) ==
  /\ termPc[id] = "wait_stream"
  /\ StreamLockFree(id)
  /\ stream' = [stream EXCEPT ![id] = "none"]
  /\ termPc' = [termPc EXCEPT ![id] = "clear_active"]
  /\ UNCHANGED << sessions, created, metadata, active_session, state, reconnect_attempts,
                  ioVars, regPc, stabPc, cleanupPc, to_remove, snapshot, in_session,
                  lastResult, eventsLeft, histVars >>
  /\ UNCHANGED otherVars
  /\ announcedBg' = StillAnnounced

\* terminate_session(id): clear the pointer, save the snapshot, return Ok.
TerminateReturn(id) ==
  /\ termPc[id] = "clear_active"
  /\ active_session' = ClearIfActive(active_session, id)
  /\ snapshot' = SavedSessions(sessions, state)
  /\ lastResult' = Result("terminate_session", id, "Ok")
  /\ termPc' = [termPc EXCEPT ![id] = "done"]
  /\ UNCHANGED << sessions, created, metadata, state, stream, reconnect_attempts, ioVars,
                  regPc, stabPc, cleanupPc, to_remove, in_session, eventsLeft, histVars >>
  /\ UNCHANGED otherVars
  /\ announcedBg' = StillAnnounced

\* ShellSession::handle_disconnect on a session reached through the map.
handle_disconnect(s) ==
  /\ eventsLeft > 0
  /\ eventsLeft' = eventsLeft - 1
  /\ s \in sessions
  /\ IF reconnect_attempts[s] < max_reconnect_attempts
     THEN /\ state' = [state EXCEPT ![s] = "Background"]
          /\ reconnect_attempts' = [reconnect_attempts EXCEPT ![s] = @ + 1]
     ELSE /\ state' = [state EXCEPT ![s] = "Terminated"]
          /\ UNCHANGED reconnect_attempts
  /\ UNCHANGED << sessions, created, metadata, active_session, stream, ioVars, callVars,
                  snapshot, in_session, lastResult, histVars >>
  /\ UNCHANGED otherVars
  /\ announcedBg' = StillAnnounced

\* ---------------------------------------------- cleanup_terminated_sessions
TerminatedIn_inactive(map, st) == {s \in map : st[s] /= "Active"}

\* The ids the scan collects.
TerminatedIn(map, st) == {s \in map : st[s] = "Terminated"}

CleanupScan ==
  /\ eventsLeft > 0
  /\ eventsLeft' = eventsLeft - 1
  /\ cleanupPc = "idle"
  /\ to_remove' = TerminatedIn(sessions, state)
  /\ scanned' = [s \in sessions |-> state[s]]
  /\ cleanupPc' = "remove"
  /\ UNCHANGED << sessionVars, ioVars, regPc, stabPc, termPc, snapshot, in_session,
                  lastResult, accepted, written, produced,
                  displayed >>
  /\ UNCHANGED otherVars
  /\ announcedBg' = StillAnnounced

CleanupRemove_keep ==
  /\ cleanupPc = "remove"
  /\ sessions' = sessions
  /\ snapshot' = IF to_remove /= {} THEN SavedSessions(sessions \ to_remove, state)
                 ELSE snapshot
  /\ to_remove' = {}
  /\ scanned' = <<>>
  /\ cleanupPc' = "idle"
  /\ lastResult' = Result("cleanup_terminated_sessions", NoSession, "Ok")
  /\ UNCHANGED << created, metadata, active_session, state, stream, reconnect_attempts, ioVars,
                  regPc, stabPc, termPc, in_session, eventsLeft,
                  accepted, written, produced, displayed >>
  /\ UNCHANGED otherVars
  /\ announcedBg' = StillAnnounced

\* cleanup_terminated_sessions: the removals, and the snapshot if any.
CleanupRemove ==
  /\ cleanupPc = "remove"
  /\ sessions' = sessions \ to_remove
  /\ snapshot' = IF to_remove /= {} THEN SavedSessions(sessions \ to_remove, state)
                 ELSE snapshot
  /\ to_remove' = {}
  /\ scanned' = <<>>
  /\ cleanupPc' = "idle"
  /\ lastResult' = Result("cleanup_terminated_sessions", NoSession, "Ok")
  /\ UNCHANGED << created, metadata, active_session, state, stream, reconnect_attempts, ioVars,
                  regPc, stabPc, termPc, in_session, eventsLeft,
                  accepted, written, produced, displayed >>
  /\ UNCHANGED otherVars
  /\ announcedBg' = StillAnnounced

\* ------------------------------------------------------ InteractiveTerminal
\* The tick prints the "Connection lost - session backgrounded" banner.
Announces(s) == s /= NoSession /\ state[s] = "Background" /\ in_session

\* run_loop, output tick: announce, then drain the active session's output_rx.
OutputTick ==
  LET s == get_active_session IN
    /\ ~should_exit
    /\ IF s /= NoSession
       THEN /\ in_session' = (state[s] /= "Background")
            /\ displayed' = [displayed EXCEPT ![s] = @ \o outputQ[s]]
            /\ outputQ' = [outputQ EXCEPT ![s] = <<>>]
       ELSE /\ in_session' = FALSE
            /\ UNCHANGED << displayed, outputQ >>
    /\ UNCHANGED << sessionVars, ioPc, inputQ, output_buffer, callVars, snapshot,
                    lastResult, eventsLeft, accepted, written, produced,
                    scanned >>
    /\ UNCHANGED otherVars
    /\ announcedBg' = IF Announces(s)
                      THEN [StillAnnounced EXCEPT ![s] = TRUE]
                      ELSE StillAnnounced

\* The keys whose handler calls send_command.
ForwardedKeys == {"char", "up", "ctrl_c", "tab"}

\* run_loop, key branch: handle_key_event.
KeyPress(k) ==
  LET s == get_active_session IN
    /\ ~should_exit
    /\ eventsLeft > 0
    /\ eventsLeft' = eventsLeft - 1
    /\ IF s /= NoSession /\ k = "esc"
       THEN /\ DoBackground(s)
            /\ lastResult' = Result("background_session", s, "Ok")
            /\ UNCHANGED << inputQ, accepted >>
       ELSE IF s /= NoSession /\ k \in ForwardedKeys
       THEN /\ \E r \in {"Ok", "Err"} :
                 /\ send_command(s, KeyText(k), r)
                 /\ lastResult' = Result("send_command", s, r)
            /\ UNCHANGED << state, active_session >>
       ELSE UNCHANGED << state, active_session, inputQ, accepted, lastResult >>
    /\ should_exit' = (k = "ctrl_d" \/ (s = NoSession /\ k = "ctrl_c"))
    /\ UNCHANGED << sessions, created, metadata, stream, reconnect_attempts, ioPc, outputQ,
                    output_buffer, callVars, snapshot, in_session,
                    written, produced, displayed, scanned >>
    /\ UNCHANGED << rendVars, uiVars, libVars >>
    /\ announcedBg' = IF s /= NoSession /\ k = "esc"
                      THEN [StillAnnounced EXCEPT ![s] = TRUE]
                      ELSE StillAnnounced

\* --------------------------------------------------------- TerminalRenderer
\* The crossterm call that fails during one transition, if any: the first time
\* the transition reaches that call it returns Err and `?` ends the transition.
RenderFaults ==
  {"none", "enter_alt", "clear", "move_to", "leave_alt", "raw_on", "raw_off",
   "flush"}

\* A renderer call in progress: the renderer's flags r, the terminal y, and
\* whether every call so far returned Ok.
Rendering(r, y) == [r |-> r, y |-> y, ok |-> TRUE]

enter_alternate_screen(st, f) ==
  IF ~st.ok \/ st.r.in_alternate_screen THEN st
  ELSE IF f = "enter_alt" THEN [st EXCEPT !.ok = FALSE]
  ELSE IF f \in {"clear", "move_to"}
       THEN [st EXCEPT !.y.alternate = TRUE, !.ok = FALSE]
  ELSE [st EXCEPT !.y.alternate = TRUE, !.r.in_alternate_screen = TRUE]

leave_alternate_screen(st, f) ==
  IF ~st.ok \/ ~st.r.in_alternate_screen THEN st
  ELSE IF f = "leave_alt" THEN [st EXCEPT !.ok = FALSE]
  ELSE [st EXCEPT !.y.alternate = FALSE, !.r.in_alternate_screen = FALSE]

enable_raw_mode(st, f) ==
  IF ~st.ok \/ st.r.in_raw_mode THEN st
  ELSE IF f = "raw_on" THEN [st EXCEPT !.ok = FALSE]
  ELSE [st EXCEPT !.y.raw = TRUE, !.r.in_raw_mode = TRUE]

disable_raw_mode(st, f) ==
  IF ~st.ok \/ ~st.r.in_raw_mode THEN st
  ELSE IF f = "raw_off" THEN [st EXCEPT !.ok = FALSE]
  ELSE [st EXCEPT !.y.raw = FALSE, !.r.in_raw_mode = FALSE]

clear_screen(st, f) ==
  IF ~st.ok THEN st
  ELSE IF f \in {"clear", "move_to"} THEN [st EXCEPT !.ok = FALSE]
  ELSE st

MenuMode(st, f) ==
  clear_screen(enable_raw_mode(enter_alternate_screen(st, f), f), f)

SessionMode(st, f) == enable_raw_mode(leave_alternate_screen(st, f), f)

ListeningMode(st, f) ==
  clear_screen(disable_raw_mode(leave_alternate_screen(st, f), f), f)

flush(st, f) ==
  IF ~st.ok THEN st
  ELSE IF f = "flush" THEN [st EXCEPT !.ok = FALSE]
  ELSE st

CleanedUp(st, f) ==
  flush(clear_screen(leave_alternate_screen(disable_raw_mode(st, f), f), f), f)

\* TerminalRenderer::transition_to_menu.
transition_to_menu(f) ==
  LET st == MenuMode(Rendering(renderer, tty), f) IN
    /\ eventsLeft > 0
    /\ eventsLeft' = eventsLeft - 1
    /\ renderer' = st.r
    /\ tty' = st.y
    /\ lastResult' = Result("transition_to_menu", NoSession, IF st.ok THEN "Ok" ELSE "Err")
    /\ UNCHANGED << sessionVars, ioVars, callVars, snapshot, in_session, histVars,
                    should_exit, uiVars, libVars, announcedBg >>

\* TerminalRenderer::transition_to_session.
transition_to_session(f) ==
  LET st == SessionMode(Rendering(renderer, tty), f) IN
    /\ eventsLeft > 0
    /\ eventsLeft' = eventsLeft - 1
    /\ renderer' = st.r
    /\ tty' = st.y
    /\ lastResult' = Result("transition_to_session", NoSession, IF st.ok THEN "Ok" ELSE "Err")
    /\ UNCHANGED << sessionVars, ioVars, callVars, snapshot, in_session, histVars,
                    should_exit, uiVars, libVars, announcedBg >>

\* TerminalRenderer::transition_to_listening.
transition_to_listening(f) ==
  LET st == ListeningMode(Rendering(renderer, tty), f) IN
    /\ eventsLeft > 0
    /\ eventsLeft' = eventsLeft - 1
    /\ renderer' = st.r
    /\ tty' = st.y
    /\ lastResult' = Result("transition_to_listening", NoSession, IF st.ok THEN "Ok" ELSE "Err")
    /\ UNCHANGED << sessionVars, ioVars, callVars, snapshot, in_session, histVars,
                    should_exit, uiVars, libVars, announcedBg >>

\* TerminalRenderer::cleanup.
cleanup(f) ==
  LET st == CleanedUp(Rendering(renderer, tty), f) IN
    /\ eventsLeft > 0
    /\ eventsLeft' = eventsLeft - 1
    /\ renderer' = st.r
    /\ tty' = st.y
    /\ lastResult' = Result("cleanup", NoSession, IF st.ok THEN "Ok" ELSE "Err")
    /\ UNCHANGED << sessionVars, ioVars, callVars, snapshot, in_session, histVars,
                    should_exit, uiVars, libVars, announcedBg >>

\* ------------------------------------------------------------ ShellListener
\* TcpListener::bind: on failure start returns the error through `?`.
ListenBind(ok) ==
  /\ listener.pc = "init"
  /\ listener' = IF ok THEN [listener EXCEPT !.pc = "loop"]
                 ELSE [listener EXCEPT !.pc = "returned", !.result = "Err"]
  /\ UNCHANGED << sessionVars, ioVars, callVars, snapshot, in_session, lastResult,
                  eventsLeft, histVars, rendVars, should_exit, menu, libVars >>
  /\ announcedBg' = StillAnnounced

Accepted_awaiting(l) == [l EXCEPT !.log = Append(@, "accepted"), !.pc = "registering"]

\* The listener after `Ok((stream, remote_addr))`: tokio::spawn returns at once.
Accepted(l) == [l EXCEPT !.log = Append(@, "accepted")]

\* listener.accept() returns a connection: the loop spawns a task that calls
\* register_session (ShellSession::new, spawn of stabilize_shell, map insert)
\* and goes round again.
Accept ==
  /\ listener.pc = "loop"
  /\ Cardinality(created) < MaxSessions
  /\ eventsLeft > 1
  /\ eventsLeft' = eventsLeft - 2
  /\ LET id == Cardinality(created) + 1 IN
       /\ created' = created \cup {id}
       /\ sessions' = sessions \cup {id}
       /\ ioPc' = [ioPc EXCEPT ![id] = "start"]
       /\ regPc' = [regPc EXCEPT ![id] = "inserted"]
  /\ listener' = Accepted(listener)
  /\ UNCHANGED << active_session, state, stream, reconnect_attempts, metadata,
                  inputQ, outputQ, output_buffer, stabPc, termPc, cleanupPc,
                  to_remove, snapshot, in_session, lastResult, histVars,
                  rendVars, should_exit, menu, libVars >>
  /\ announcedBg' = StillAnnounced

AcceptFailed_fatal(l) ==
  [l EXCEPT !.log = Append(@, "accept_error"), !.pc = "returned", !.result = "Err"]

\* The listener after `Err(e)`: error!("Failed to accept connection").
AcceptFailed(l) == [l EXCEPT !.log = Append(@, "accept_error")]

\* listener.accept() returns an error: it is logged and the loop goes round.
AcceptFail ==
  /\ listener.pc = "loop"
  /\ eventsLeft > 0
  /\ eventsLeft' = eventsLeft - 1
  /\ listener' = AcceptFailed(listener)
  /\ UNCHANGED << sessionVars, ioVars, callVars, snapshot, in_session, lastResult,
                  histVars, rendVars, should_exit, menu, libVars >>
  /\ announcedBg' = StillAnnounced

\* ShellListener::stop, or the Ctrl+C task: should_stop is stored.
ListenStop ==
  /\ listener.pc = "loop"
  /\ ~listener.should_stop
  /\ eventsLeft > 0
  /\ eventsLeft' = eventsLeft - 1
  /\ listener' = [listener EXCEPT !.should_stop = TRUE]
  /\ UNCHANGED << sessionVars, ioVars, callVars, snapshot, in_session, lastResult,
                  histVars, rendVars, should_exit, menu, libVars >>
  /\ announcedBg' = StillAnnounced

\* The top of the loop finds should_stop set: break, and start returns Ok.
ListenBreak ==
  /\ listener.pc = "loop"
  /\ listener.should_stop
  /\ listener' = [listener EXCEPT !.pc = "returned", !.result = "Ok"]
  /\ UNCHANGED << sessionVars, ioVars, callVars, snapshot, in_session, lastResult,
                  eventsLeft, histVars, rendVars, should_exit, menu, libVars >>
  /\ announcedBg' = StillAnnounced

\* start_with_cleanup: the task that sleeps 30 s and calls
\* cleanup_terminated_sessions, for ever; this is the call's scan.
SweepScan ==
  /\ cleanupPc = "idle"
  /\ to_remove' = TerminatedIn(sessions, state)
  /\ scanned' = [s \in sessions |-> state[s]]
  /\ cleanupPc' = "remove"
  /\ UNCHANGED << sessionVars, ioVars, regPc, stabPc, termPc, snapshot, in_session,
                  lastResult, eventsLeft, accepted, written, produced,
                  displayed >>
  /\ UNCHANGED otherVars
  /\ announcedBg' = StillAnnounced

\* ----------------------------------------------------------------- MainMenu
\* get_session_list: one entry per map entry, in the order the map iterates.
SessionLists == { q \in [1..Cardinality(sessions) -> sessions] :
                    \A i, j \in 1..Cardinality(sessions) : i /= j => q[i] /= q[j] }

\* sessions[self.selected] is in bounds.
SelectedInBounds == menu.selected < Len(menu.sessions)

\* The entry the cursor is on.
SelectedId == menu.sessions[menu.selected + 1]

Min(a, b) == IF a < b THEN a ELSE b

\* The menu after a list has been fetched: the empty screen, or the list with
\* the cursor kept inside it (sel is the cursor to keep).
Rendered(m, list, sel) ==
  IF list = <<>>
  THEN [m EXCEPT !.pc = "empty", !.sessions = list]
  ELSE [m EXCEPT !.pc = "list", !.sessions = list, !.selected = sel]

\* crossterm's enable_raw_mode (on) and disable_raw_mode, called on the
\* terminal itself.
SetRawMode(y, on) == [y EXCEPT !.raw = on]

\* run / run_menu_loop: raw mode is switched on, the list is fetched and
\* rendered, or the empty screen.  The cursor is a field of MainMenu and is
\* where the last run left it.
MenuOpen ==
  /\ menu.pc \in {"closed", "returned"}
  /\ eventsLeft > 0
  /\ eventsLeft' = eventsLeft - 1
  /\ \E list \in SessionLists :
       menu' = Rendered([menu EXCEPT !.result = None, !.killing = NoSession],
                        list, menu.selected)
  /\ tty' = SetRawMode(tty, TRUE)
  /\ UNCHANGED << sessionVars, ioVars, callVars, snapshot, in_session, lastResult,
                  histVars, renderer, should_exit, listener, libVars >>
  /\ announcedBg' = StillAnnounced

\* MenuEvent::SelectNext (Down, 'j').
MenuSelectNext ==
  /\ menu.pc = "list"
  /\ eventsLeft > 0
  /\ eventsLeft' = eventsLeft - 1
  /\ menu' = IF menu.selected < Len(menu.sessions) - 1
             THEN [menu EXCEPT !.selected = @ + 1] ELSE menu
  /\ UNCHANGED << sessionVars, ioVars, callVars, snapshot, in_session, lastResult,
                  histVars, rendVars, should_exit, listener, libVars >>
  /\ announcedBg' = StillAnnounced

\* MenuEvent::SelectPrev (Up, 'k').
MenuSelectPrev ==
  /\ menu.pc = "list"
  /\ eventsLeft > 0
  /\ eventsLeft' = eventsLeft - 1
  /\ menu' = IF menu.selected > 0 THEN [menu EXCEPT !.selected = @ - 1] ELSE menu
  /\ UNCHANGED << sessionVars, ioVars, callVars, snapshot, in_session, lastResult,
                  histVars, rendVars, should_exit, listener, libVars >>
  /\ announcedBg' = StillAnnounced

\* MenuEvent::Confirm (Enter): return the selected id, and run switches raw
\* mode off; the index panics when the cursor is beyond the list, and the
\* unwinding skips disable_raw_mode.
MenuConfirm ==
  /\ menu.pc = "list"
  /\ eventsLeft > 0
  /\ eventsLeft' = eventsLeft - 1
  /\ menu' = IF SelectedInBounds
             THEN [menu EXCEPT !.pc = "returned", !.result = Some(SelectedId)]
             ELSE [menu EXCEPT !.pc = "panicked"]
  /\ tty' = IF SelectedInBounds THEN SetRawMode(tty, FALSE) ELSE tty
  /\ UNCHANGED << sessionVars, ioVars, callVars, snapshot, in_session, lastResult,
                  histVars, renderer, should_exit, listener, libVars >>
  /\ announcedBg' = StillAnnounced

\* MenuEvent::Kill ('K'): terminate_session(sessions[selected]) is called and
\* awaited; this is the call's sessions.remove, or its "not found".
MenuKill ==
  /\ menu.pc = "list"
  /\ eventsLeft > 0
  /\ eventsLeft' = eventsLeft - 1
  /\ IF ~SelectedInBounds
     THEN /\ menu' = [menu EXCEPT !.pc = "panicked"]
          /\ UNCHANGED << sessions, termPc, lastResult >>
     ELSE IF SelectedId \in sessions
     THEN /\ menu' = [menu EXCEPT !.pc = "killing", !.killing = SelectedId]
          /\ sessions' = sessions \ {SelectedId}
          /\ termPc' = [termPc EXCEPT ![SelectedId] = "removed"]
          /\ UNCHANGED lastResult
     ELSE /\ menu' = [menu EXCEPT !.pc = "killed", !.killing = SelectedId]
          /\ lastResult' = Result("terminate_session", SelectedId, "NotFound")
          /\ UNCHANGED << sessions, termPc >>
  /\ UNCHANGED << created, metadata, active_session, state, stream, reconnect_attempts,
                  ioVars, regPc, stabPc, cleanupPc, to_remove, snapshot, in_session,
                  histVars, rendVars, should_exit, listener, libVars >>
  /\ announcedBg' = StillAnnounced

\* terminate_session has returned to the menu.
KillReturned ==
  \/ menu.pc = "killed"
  \/ menu.pc = "killing" /\ termPc[menu.killing] = "done"

\* Kill, after the await: fetch the list again, keep the cursor inside it,
\* render it or the empty screen.
MenuRefresh ==
  /\ KillReturned
  /\ \E list \in SessionLists :
       menu' = Rendered(menu, list, Min(menu.selected, Len(list) - 1))
  /\ UNCHANGED << sessionVars, ioVars, callVars, snapshot, in_session, lastResult,
                  eventsLeft, histVars, rendVars, should_exit, listener, libVars >>
  /\ announcedBg' = StillAnnounced

\* MenuEvent::Quit ('q', Esc) in the list, or 'q' / Esc on the empty screen;
\* run switches raw mode off.
MenuQuit ==
  /\ menu.pc \in {"list", "empty"}
  /\ eventsLeft > 0
  /\ eventsLeft' = eventsLeft - 1
  /\ menu' = [menu EXCEPT !.pc = "returned", !.result = None]
  /\ tty' = SetRawMode(tty, FALSE)
  /\ UNCHANGED << sessionVars, ioVars, callVars, snapshot, in_session, lastResult,
                  histVars, renderer, should_exit, listener, libVars >>
  /\ announcedBg' = StillAnnounced

\* ------------------------------------------------------------ specification
Next ==
  \/ RegisterNew
  \/ \E id \in SessionIds : RegisterSetActive(id)
  \/ \E id \in SessionIds : StabilizeSend(id)
  \/ \E id \in SessionIds : StabilizeFinish(id)
  \/ \E id \in SessionIds : RegisterReturn(id)
  \/ \E s \in SessionIds : IoStart(s)
  \/ \E s \in SessionIds, c \in RemoteChunks : IoReadData(s, c)
  \/ \E s \in SessionIds, n \in Notices : IoReadFault(s, n)
  \/ \E s \in SessionIds : IoWrite(s)
  \/ \E s \in SessionIds, n \in Notices : IoWriteFault(s, n)
  \/ \E s \in SessionIds : IoCheck(s)
  \/ \E id \in SessionIds : set_active_session(id)
  \/ \E id \in SessionIds : background_session(id)
  \/ \E id \in SessionIds : foreground_session(id)
  \/ \E id \in SessionIds : TerminateNotFound(id)
  \/ \E id \in SessionIds : TerminateRemove(id)
  \/ \E id \in SessionIds : TerminateSetState(id)
  \/ \E id \in SessionIds : TerminateShutdown(id)
  \/ \E id \in SessionIds : TerminateReturn(id)
  \/ \E s \in SessionIds : handle_disconnect(s)
  \/ CleanupScan
  \/ CleanupRemove
  \/ OutputTick
  \/ \E k \in Keys : KeyPress(k)

Spec == Init /\ [][Next]_vars

\* Scheduling: the runtime keeps running every spawned task and every call in
\* progress; the remote end, the operator and the timers are under no
\* obligation.
Fairness ==
  /\ \A s \in SessionIds :
       /\ WF_vars(IoStart(s))
       /\ WF_vars(IoWrite(s))
       /\ WF_vars(IoCheck(s))
       /\ WF_vars(RegisterSetActive(s))
       /\ WF_vars(StabilizeSend(s))
       /\ WF_vars(StabilizeFinish(s))
       /\ WF_vars(RegisterReturn(s))
       /\ WF_vars(TerminateSetState(s))
       /\ WF_vars(TerminateShutdown(s))
       /\ WF_vars(TerminateReturn(s))
  /\ WF_vars(CleanupRemove)
  /\ WF_vars(OutputTick)

FairSpec == Init /\ [][Next]_vars /\ Fairness

\* An empty registry that accepts a connection while events keep arriving:
\* the budget covers one registration and MaxStabEvents further events, which
\* may fall before, during or after its stabilization.
StabInit == InitWith(0, {}, MaxStabEvents + 2)

\* What the remote end may answer to the probes in one read: a host name
\* followed by a newline, and a root prompt.
StabChunks == { <<119, 101, 98, NL>>, <<35, 32>> }

\* The steps of Next, with the remote end answering from StabChunks.
StabNext ==
  \/ RegisterNew
  \/ \E id \in SessionIds : RegisterSetActive(id)
  \/ \E id \in SessionIds : StabilizeSend(id)
  \/ \E id \in SessionIds : StabilizeFinish(id)
  \/ \E id \in SessionIds : RegisterReturn(id)
  \/ \E s \in SessionIds : IoStart(s)
  \/ \E s \in SessionIds, c \in StabChunks : IoReadData(s, c)
  \/ \E s \in SessionIds, n \in Notices : IoReadFault(s, n)
  \/ \E s \in SessionIds : IoWrite(s)
  \/ \E s \in SessionIds, n \in Notices : IoWriteFault(s, n)
  \/ \E s \in SessionIds : IoCheck(s)
  \/ \E id \in SessionIds : set_active_session(id)
  \/ \E id \in SessionIds : background_session(id)
  \/ \E id \in SessionIds : foreground_session(id)
  \/ \E id \in SessionIds : TerminateNotFound(id)
  \/ \E id \in SessionIds : TerminateRemove(id)
  \/ \E id \in SessionIds : TerminateSetState(id)
  \/ \E id \in SessionIds : TerminateShutdown(id)
  \/ \E id \in SessionIds : TerminateReturn(id)
  \/ \E s \in SessionIds : handle_disconnect(s)
  \/ CleanupScan
  \/ CleanupRemove
  \/ OutputTick
  \/ \E k \in Keys : KeyPress(k)

StabSpec == StabInit /\ [][StabNext]_vars

\* One session registered and foreground, with the operator at the keyboard:
\* MaxTermEvents events, the keys drawn from TermKeys.
TermInit == InitWith(1, {}, MaxTermEvents)

\* The steps of Next, with the operator typing from TermKeys.
TermNext ==
  \/ RegisterNew
  \/ \E id \in SessionIds : RegisterSetActive(id)
  \/ \E id \in SessionIds : StabilizeSend(id)
  \/ \E id \in SessionIds : StabilizeFinish(id)
  \/ \E id \in SessionIds : RegisterReturn(id)
  \/ \E s \in SessionIds : IoStart(s)
  \/ \E s \in SessionIds, c \in RemoteChunks : IoReadData(s, c)
  \/ \E s \in SessionIds, n \in Notices : IoReadFault(s, n)
  \/ \E s \in SessionIds : IoWrite(s)
  \/ \E s \in SessionIds, n \in Notices : IoWriteFault(s, n)
  \/ \E s \in SessionIds : IoCheck(s)
  \/ \E id \in SessionIds : set_active_session(id)
  \/ \E id \in SessionIds : background_session(id)
  \/ \E id \in SessionIds : foreground_session(id)
  \/ \E id \in SessionIds : TerminateNotFound(id)
  \/ \E id \in SessionIds : TerminateRemove(id)
  \/ \E id \in SessionIds : TerminateSetState(id)
  \/ \E id \in SessionIds : TerminateShutdown(id)
  \/ \E id \in SessionIds : TerminateReturn(id)
  \/ \E s \in SessionIds : handle_disconnect(s)
  \/ CleanupScan
  \/ CleanupRemove
  \/ OutputTick
  \/ \E k \in TermKeys : KeyPress(k)

TermSpec == TermInit /\ [][TermNext]_vars

\* The listener before bind, with an empty registry and a silent remote end:
\* an accepted connection counts as two events, an accept error or a stop as
\* one.
ListenInit == InitWith(0, {}, MaxListenEvents)

\* start and the tasks it spawns: the accept loop and, per accepted
\* connection, a registration, its stabilizer and its I/O task.
ListenNext ==
  \/ \E ok \in BOOLEAN : ListenBind(ok)
  \/ Accept
  \/ AcceptFail
  \/ ListenStop
  \/ ListenBreak
  \/ \E id \in SessionIds : RegisterSetActive(id)
  \/ \E id \in SessionIds : StabilizeSend(id)
  \/ \E id \in SessionIds : StabilizeFinish(id)
  \/ \E id \in SessionIds : RegisterReturn(id)
  \/ \E s \in SessionIds : IoStart(s)
  \/ \E s \in SessionIds, n \in Notices : IoReadFault(s, n)
  \/ \E s \in SessionIds : IoWrite(s)
  \/ \E s \in SessionIds, n \in Notices : IoWriteFault(s, n)
  \/ \E s \in SessionIds : IoCheck(s)

\* Every spawned registration and stabilizer that can take a step is
\* eventually scheduled.
ListenFairness ==
  /\ \A s \in SessionIds :
       /\ WF_vars(RegisterSetActive(s))
       /\ WF_vars(StabilizeSend(s))
       /\ WF_vars(StabilizeFinish(s))
       /\ WF_vars(RegisterReturn(s))

ListenSpec == ListenInit /\ [][ListenNext]_vars /\ ListenFairness

\* One registered session that has used up its reconnect attempts, under
\* start_with_cleanup: MaxSweepEvents events, and the sweep for ever.
SweepInit == InitWith(1, {1}, MaxSweepEvents)

\* The steps of Next, the periodic sweep, and the menu's keys but Kill.
SweepNext ==
  \/ RegisterNew
  \/ \E id \in SessionIds : RegisterSetActive(id)
  \/ \E id \in SessionIds : StabilizeSend(id)
  \/ \E id \in SessionIds : StabilizeFinish(id)
  \/ \E id \in SessionIds : RegisterReturn(id)
  \/ \E s \in SessionIds : IoStart(s)
  \/ \E s \in SessionIds, c \in RemoteChunks : IoReadData(s, c)
  \/ \E s \in SessionIds, n \in Notices : IoReadFault(s, n)
  \/ \E s \in SessionIds : IoWrite(s)
  \/ \E s \in SessionIds, n \in Notices : IoWriteFault(s, n)
  \/ \E s \in SessionIds : IoCheck(s)
  \/ \E id \in SessionIds : set_active_session(id)
  \/ \E id \in SessionIds : background_session(id)
  \/ \E id \in SessionIds : foreground_session(id)
  \/ \E id \in SessionIds : TerminateNotFound(id)
  \/ \E id \in SessionIds : TerminateRemove(id)
  \/ \E id \in SessionIds : TerminateSetState(id)
  \/ \E id \in SessionIds : TerminateShutdown(id)
  \/ \E id \in SessionIds : TerminateReturn(id)
  \/ \E s \in SessionIds : handle_disconnect(s)
  \/ CleanupScan
  \/ CleanupRemove
  \/ OutputTick
  \/ \E k \in Keys : KeyPress(k)
  \/ SweepScan
  \/ MenuOpen
  \/ MenuSelectNext
  \/ MenuSelectPrev
  \/ MenuConfirm
  \/ MenuQuit

\* The sweep task is scheduled again and again, and a sweep that has scanned
\* goes on to remove.
SweepFairness == WF_vars(SweepScan) /\ WF_vars(CleanupRemove)

SweepSpec == SweepInit /\ [][SweepNext]_vars /\ SweepFairness

\* The menu over a registry of one or more quiescent sessions:
\* MaxMenuEvents keys and calls.
MenuInit == \E n \in 1..MaxSessions : InitWith(n, {}, MaxMenuEvents)

\* The menu, the terminate_session call it awaits, a terminate_session made
\* elsewhere, and the I/O tasks of the sessions, whose remote ends may answer,
\* close, or stay silent.
MenuNext ==
  \/ MenuOpen
  \/ MenuSelectNext
  \/ MenuSelectPrev
  \/ MenuConfirm
  \/ MenuKill
  \/ MenuRefresh
  \/ MenuQuit
  \/ \E id \in SessionIds : TerminateRemove(id)
  \/ \E id \in SessionIds : TerminateSetState(id)
  \/ \E id \in SessionIds : TerminateShutdown(id)
  \/ \E id \in SessionIds : TerminateReturn(id)
  \/ \E s \in SessionIds, n \in Notices : IoReadFault(s, n)
  \/ \E s \in SessionIds, c \in StabChunks : IoReadData(s, c)
  \/ \E s \in SessionIds : IoCheck(s)

\* The menu's task and the calls and I/O tasks in progress are scheduled.
MenuFairness ==
  /\ WF_vars(MenuRefresh)
  /\ \A s \in SessionIds :
       /\ WF_vars(IoCheck(s))
       /\ WF_vars(TerminateSetState(s))
       /\ WF_vars(TerminateShutdown(s))
       /\ WF_vars(TerminateReturn(s))

MenuSpec == MenuInit /\ [][MenuNext]_vars /\ MenuFairness

\* A renderer just constructed, on which MaxRenderCalls calls are made in any
\* order, each of which may fail at any of its crossterm calls.
RenderInit == InitWith(0, {}, MaxRenderCalls)

RenderNext ==
  \/ \E f \in RenderFaults : transition_to_menu(f)
  \/ \E f \in RenderFaults : transition_to_session(f)
  \/ \E f \in RenderFaults : transition_to_listening(f)
  \/ \E f \in RenderFaults : cleanup(f)

RenderSpec == RenderInit /\ [][RenderNext]_vars

\* ------------------------------------------------------------------ claims
IoRunning(s) == ioPc[s] \in {"start", "select", "check"}
IsPrefix(p, q) == Len(p) <= Len(q) /\ \A i \in 1..Len(p) : p[i] = q[i]
IsNotice(c) == c \in Notices
\* The remote output in a queue: its chunks without the synthetic notices.
RemoteOnly(q) == SelectSeq(q, LAMBDA c : ~IsNotice(c))
\* A handle_io fault has happened on s: its notice is queued or displayed.
Faulted(s) == \E i \in 1..Len(displayed[s] \o outputQ[s]) :
                 IsNotice((displayed[s] \o outputQ[s])[i])

\* register_session has inserted s and its stabilize_shell task has not ended.
Stabilizing(s) ==
  regPc[s] \in {"inserted", "stabilizing"} /\ stabPc[s] <= Len(StabilizeCmds)
\* The step with which the stabilize_shell task of s ends.
StabilizerEnds(s) ==
  stabPc[s] = Len(StabilizeCmds) /\ stabPc'[s] = Len(StabilizeCmds) + 1

\* C1: the foreground pointer, whenever set, names a session whose state is
\* not Terminated.
C1Claim ==
  active_session /= NoSession => state[active_session] /= "Terminated"

\* C2: whenever the session the foreground pointer names becomes Background,
\* by any path, the pointer is cleared; and when terminate_session(id) returns
\* the pointer does not name id.
C2Claim ==
  [][\A s \in SessionIds :
       /\ (active_session = s /\ state[s] /= "Background" /\ state'[s] = "Background")
            => active_session' /= s
       /\ (termPc[s] /= "done" /\ termPc'[s] = "done") => active_session' /= s]_vars

\* C3: a terminate_session(id) that has removed a registered session always
\* completes: it returns with the socket shut down and the state Terminated.
C3Claim ==
  \A s \in SessionIds :
    (termPc[s] = "removed") ~>
       (termPc[s] = "done" /\ stream[s] = "none" /\ state[s] = "Terminated")

\* C4: terminate_session is idempotent at the registry level: the call that
\* finds the id returns Ok with the id out of the map, the id never comes back,
\* and a call that returns "not found" was made on an id that is not in the
\* map and changes neither the map, the pointer, nor any session.
C4Theorem ==
  /\ [](\A s \in SessionIds : termPc[s] /= "idle" => s \notin sessions)
  /\ [][\A s \in SessionIds :
          /\ (termPc[s] /= "done" /\ termPc'[s] = "done")
               => lastResult' = Result("terminate_session", s, "Ok")
          /\ (lastResult' = Result("terminate_session", s, "NotFound")
                /\ lastResult' /= lastResult)
               => /\ s \notin sessions
                  /\ UNCHANGED << sessions, active_session, state, stream,
                                  reconnect_attempts, ioVars, termPc >>]_vars

\* C4 witness: a first call on s has returned Ok and a second call on s has
\* just returned "not found".
C4Witness ==
  \E s \in SessionIds :
    termPc[s] = "done" /\ lastResult = Result("terminate_session", s, "NotFound")

\* C5: a fault seen by handle_io (EOF, read error, write or flush error)
\* leaves the state Background, and a session that had such a fault leaves the
\* registry only through terminate_session or once its reconnect budget is
\* used up.
C5Theorem ==
  [][\A s \in SessionIds :
       /\ (ioPc[s] = "select" /\ ioPc'[s] = "exited") => state'[s] = "Background"
       /\ (Faulted(s) /\ s \in sessions /\ s \notin sessions')
            => \/ termPc'[s] = "removed"
               \/ reconnect_attempts[s] = max_reconnect_attempts]_vars

\* C5 witness: a sweep has completed and a session that had a fault is still
\* listed, in state Background.
C5Witness ==
  /\ lastResult.op = "cleanup_terminated_sessions"
  /\ \E s \in sessions :
       Faulted(s) /\ state[s] = "Background"
         /\ reconnect_attempts[s] < max_reconnect_attempts

C7Claim ==
  [][\A s \in SessionIds :
       state[s] = "Terminated" =>
         /\ accepted'[s] = accepted[s]
         /\ (lastResult' /= lastResult
               => lastResult' /= Result("send_command", s, "Ok"))]_vars

\* C8: the chunks written to the socket are the accepted chunks, in the order
\* send_command accepted them; while handle_io runs, what is accepted is what
\* is written followed by what is still queued.
C8Theorem ==
  \A s \in SessionIds :
    /\ IsPrefix(written[s], BytesOf(accepted[s]))
    /\ (IoRunning(s) /\ s \in created)
         => BytesOf(accepted[s]) = written[s] \o BytesOf(inputQ[s])

\* C8 witness: two different chunks sent by the operator after the probes have
\* both been written.
C8Witness ==
  \E s \in SessionIds :
    /\ Len(written[s]) = Len(StabilizeCmds) + 2
    /\ written[s][Len(StabilizeCmds) + 1] /= written[s][Len(StabilizeCmds) + 2]
    /\ inputQ[s] = <<>>

\* C9: what the consumer has drained from output_rx, followed by what is still
\* queued there, is exactly the byte sequence the remote produced.
C9Claim ==
  \A s \in SessionIds :
    Flatten(BytesOf(RemoteOnly(displayed[s] \o outputQ[s]))) = Flatten(produced[s])

\* C10: register_session sets the foreground pointer to the new id exactly
\* when no session is foreground, and otherwise leaves the pointer alone; its
\* other steps never move the pointer.
C10Theorem ==
  [][\A s \in SessionIds :
       /\ (regPc[s] = "inserted" /\ regPc'[s] = "stabilizing")
            => /\ (active_session = NoSession => active_session' = s)
               /\ (active_session /= NoSession => active_session' = active_session)
       /\ ((regPc[s] = "none" /\ regPc'[s] = "inserted")
             \/ (regPc[s] = "stabilizing" /\ regPc'[s] = "done"))
            => active_session' = active_session]_vars

\* C10 witness: a registration has passed its check while another session was
\* foreground, and the pointer still names that other session.
C10Witness ==
  \E s \in SessionIds :
    /\ regPc[s] = "stabilizing"
    /\ active_session \notin {NoSession, s}
    /\ active_session \in sessions

\* C11: register_session returns the new id only after that session's
\* stabilization has finished: every probe has been sent, the metadata parsed
\* from the buffer has been written and the buffer cleared, all before the
\* return; the metadata the caller reads after the return is the one the
\* stabilizer wrote.
C11Theorem ==
  [][\A s \in SessionIds :
       /\ (regPc[s] /= "done" /\ regPc'[s] = "done")
            => /\ stabPc[s] = Len(StabilizeCmds) + 1
               /\ lastResult' = Result("register_session", s, "Ok")
               /\ metadata'[s] = metadata[s]
       /\ (stabPc[s] = Len(StabilizeCmds) /\ stabPc'[s] = Len(StabilizeCmds) + 1)
            => /\ regPc'[s] /= "done"
               /\ metadata'[s] =
                    StabilizedMetadata(UnknownMetadata, Flatten(output_buffer[s]))
               /\ output_buffer'[s] = <<>>
       /\ regPc[s] = "done" => metadata'[s] = metadata[s]]_vars

\* C11 witness: register_session has just returned the id of a session whose
\* host name the stabilizer parsed from the remote's answer.
C11Witness ==
  \E s \in SessionIds :
    /\ lastResult = Result("register_session", s, "Ok")
    /\ regPc[s] = "done"
    /\ metadata[s].hostname = Some(<<119, 101, 98>>)
    /\ metadata[s].os_type = None

\* C12: while a session is stabilizing it is not the session get_active_session
\* returns, none of its output is drained to the screen, and no operator
\* keystroke is sent to it.
C12Claim ==
  [][\A s \in SessionIds :
       Stabilizing(s) =>
         /\ get_active_session /= s
         /\ displayed'[s] = displayed[s]
         /\ (lastResult' /= lastResult /\ lastResult'.op = "send_command")
              => lastResult'.id /= s]_vars

\* C13: nothing the session received while it was stabilizing is printed
\* before the stabilizer ends, and when the stabilizer ends none of it is left
\* in the output buffer or in the output queue.
C13Claim ==
  [][\A s \in SessionIds :
       /\ Stabilizing(s) => RemoteOnly(displayed'[s]) = RemoteOnly(displayed[s])
       /\ StabilizerEnds(s)
            => /\ output_buffer'[s] = <<>>
               /\ RemoteOnly(outputQ'[s]) = <<>>]_vars

\* C14: no step of the stabilizer removes a session, changes a state, closes
\* a socket or moves the pointer; a failed send is ignored and the stabilizer
\* goes on to its next step; a metadata field the parse did not determine
\* keeps its initial unknown value; and register_session returns Ok.
C14Theorem ==
  [][\A s \in SessionIds :
       /\ stabPc'[s] /= stabPc[s]
            => /\ stabPc'[s] = stabPc[s] + 1
               /\ UNCHANGED << sessions, state, stream, active_session,
                               reconnect_attempts, ioPc, regPc, termPc >>
       /\ StabilizerEnds(s)
            => LET output == Flatten(output_buffer[s]) IN
                 /\ ParseOs(output) = None => metadata'[s].os_type = None
                 /\ ParseHostname(output) = None => metadata'[s].hostname = None
                 /\ ParseUsername(output) = None => metadata'[s].username = None
                 /\ ParsePrivilege(output) = None
                      => metadata'[s].privilege = "Unknown"
       /\ (regPc[s] /= "done" /\ regPc'[s] = "done")
            => lastResult' = Result("register_session", s, "Ok")]_vars

\* C14 witness: the remote closed the connection while the stabilizer was
\* running, some probe could not be sent, and register_session has still
\* returned Ok for a session that is registered, Background, and whose
\* metadata is all unknown.
C14Witness ==
  \E s \in SessionIds :
    /\ lastResult = Result("register_session", s, "Ok")
    /\ ioPc[s] = "exited"
    /\ Len(accepted[s]) < Len(StabilizeCmds)
    /\ s \in sessions
    /\ state[s] = "Background"
    /\ metadata[s] = UnknownMetadata

\* The step is the return of a registry call op(id) with result res.
Returns(op, id, res) ==
  lastResult' /= lastResult /\ lastResult' = Result(op, id, res)

\* C15: background_session(id) and foreground_session(id) change only the
\* state of id and the foreground pointer: the map, the sockets, the I/O tasks,
\* the queues, the buffers, the metadata, the reconnect counters and every
\* other session's state are left as they were.
C15Theorem ==
  [][\A id \in SessionIds :
       /\ Returns("background_session", id, "Ok")
            => /\ state' = [state EXCEPT ![id] = "Background"]
               /\ active_session' \in {active_session, NoSession}
               /\ UNCHANGED << sessions, created, stream, reconnect_attempts,
                               metadata, ioPc, outputQ, output_buffer, inputQ >>
       /\ Returns("foreground_session", id, "Ok")
            => /\ state' = [state EXCEPT ![id] = "Active"]
               /\ active_session' = id
               /\ UNCHANGED << sessions, created, stream, reconnect_attempts,
                               metadata, ioVars >>]_vars

\* C15 witness: background_session has returned Ok for a session whose socket
\* is open and whose I/O task is running, while another registered session is
\* Active.
C15Witness ==
  \E s \in sessions :
    /\ lastResult = Result("background_session", s, "Ok")
    /\ state[s] = "Background"
    /\ stream[s] = "some" /\ IoRunning(s)
    /\ \E t \in sessions \ {s} : state[t] = "Active"

\* C16: set_active_session, background_session, foreground_session and
\* terminate_session called with an id that is not in the map return "not
\* found" and leave the map, every state and the pointer unchanged; "not
\* found" is returned in no other case.
C16Theorem ==
  [][\A id \in SessionIds :
       /\ \A op \in {"set_active_session", "background_session", "foreground_session"} :
            \A res \in {"Ok", "NotFound"} :
              Returns(op, id, res) => (res = "NotFound" <=> id \notin sessions)
       /\ \A res \in {"Ok", "NotFound"} :
            (Returns("terminate_session", id, res) /\ termPc'[id] = termPc[id])
              => (res = "NotFound" /\ id \notin sessions)
       /\ (lastResult' /= lastResult /\ lastResult'.id = id
              /\ lastResult'.res = "NotFound")
            => /\ id \notin sessions
               /\ UNCHANGED << sessions, state, active_session, stream,
                               reconnect_attempts, metadata, ioVars, snapshot >>]_vars

\* C16 witness: foreground_session has returned "not found" for an id that
\* was registered once, while another session is registered and foreground.
C16Witness ==
  \E id \in created :
    /\ lastResult = Result("foreground_session", id, "NotFound")
    /\ id \notin sessions
    /\ get_active_session \notin {NoSession, id}

\* C17: when register_session, terminate_session, background_session,
\* foreground_session or cleanup_terminated_sessions has completed, the
\* snapshot lists exactly the registered sessions, each with its current state.
C17Claim ==
  [][(/\ lastResult' /= lastResult
      /\ lastResult'.res = "Ok"
      /\ lastResult'.op \in {"register_session", "terminate_session",
                              "background_session", "foreground_session",
                              "cleanup_terminated_sessions"})
       => snapshot' = SavedSessions(sessions', state')]_vars

\* C18: every EOF, read error or write error of a session adds one to its
\* reconnect counter and leaves it Background, and a failure sets a session
\* Terminated only when max_reconnect_attempts failures were counted before.
C18Claim ==
  [][\A s \in SessionIds :
       /\ (ioPc[s] = "select" /\ ioPc'[s] = "exited")
            => /\ state'[s] = "Background"
               /\ reconnect_attempts'[s] = reconnect_attempts[s] + 1
       /\ (state[s] /= "Terminated" /\ state'[s] = "Terminated"
              /\ termPc[s] = "idle")
            => reconnect_attempts[s] = max_reconnect_attempts]_vars

\* C19: once terminate() has returned for a session, its state is Terminated
\* and its socket is closed, whatever its I/O task did around that time.
C19Claim ==
  \A s \in SessionIds :
    termPc[s] \in {"clear_active", "done"}
      => state[s] = "Terminated" /\ stream[s] = "none"

\* C20: a state becomes Terminated, and a socket is shut down, only in a step
\* of terminate().
C20Claim ==
  [][\A s \in SessionIds :
       /\ (state[s] /= "Terminated" /\ state'[s] = "Terminated")
            => (termPc[s] = "removed" /\ termPc'[s] = "wait_stream")
       /\ (stream[s] = "some" /\ stream'[s] = "none")
            => (termPc[s] = "wait_stream" /\ termPc'[s] = "clear_active")]_vars

\* C21: after any sequence of transitions the renderer is in one of the three
\* modes (raw off / main, raw on / main, raw on / alternate), on its flags and
\* on the terminal; a transition that returned Ok has left exactly its own
\* mode; the alternate screen is never in use in session mode.
C21Claim ==
  /\ renderer.in_alternate_screen => renderer.in_raw_mode
  /\ tty.alternate => tty.raw
  /\ lastResult = Result("transition_to_menu", NoSession, "Ok")
       => tty = [alternate |-> TRUE, raw |-> TRUE]
  /\ lastResult = Result("transition_to_session", NoSession, "Ok")
       => tty = [alternate |-> FALSE, raw |-> TRUE]
  /\ lastResult = Result("transition_to_listening", NoSession, "Ok")
       => tty = [alternate |-> FALSE, raw |-> FALSE]

\* The key step of the terminal loop, while session s is attached.
Typed(k, s) == get_active_session = s /\ KeyPress(k)

\* The keys whose byte sequence is ESC [ and more.
CsiKeys == { k \in TermKeys : Len(KeySequence(k)) > 2 /\ KeySequence(k)[1] = 27
                              /\ KeySequence(k)[2] = 91 }

\* The key's handler handed a string beginning with seq to session s.
Forwarded(s, seq) ==
  /\ Len(inputQ'[s]) = Len(inputQ[s]) + 1
  /\ IsPrefix(seq, inputQ'[s][Len(inputQ'[s])])

\* C22: while a session is attached, a lone Esc backgrounds it and sends it
\* nothing; a key whose sequence is ESC [ ... is handed to the session in full
\* (unless its channel is closed) and does not background it.
C22Claim ==
  [][\A s \in SessionIds :
       /\ Typed("esc", s) =>
            state'[s] = "Background" /\ inputQ'[s] = inputQ[s]
       /\ \A k \in CsiKeys :
            Typed(k, s) /\ ReceiverAlive(s) =>
              Forwarded(s, KeySequence(k)) /\ state'[s] = state[s]]_vars

\* C23: while a session is attached, a forwarded key hands the session exactly
\* the key's own bytes: what is queued for the remote grows by the key's
\* sequence and by nothing else.
C23Claim ==
  [][\A s \in SessionIds, k \in ForwardedKeys :
       Typed(k, s) /\ ReceiverAlive(s) =>
         inputQ'[s] = Append(inputQ[s], KeySequence(k))]_vars

\* C24: the detach key (Esc) pressed while s is attached leaves s Background,
\* registered, with its socket and its I/O task as they were and its queued
\* output kept; every other key leaves s attached and the terminal loop
\* running.
C24Claim ==
  [][\A s \in SessionIds :
       /\ Typed("esc", s) =>
            /\ state'[s] = "Background"
            /\ s \in sessions'
            /\ stream'[s] = stream[s]
            /\ ioPc'[s] = ioPc[s]
            /\ outputQ'[s] = outputQ[s]
       /\ \A k \in TermKeys \ {"esc"} :
            Typed(k, s) => active_session' = s /\ ~should_exit']_vars

\* The mode of run_loop: it bridges a session, or it shows the waiting banner.
\* The loop has no third mode: it never runs the menu.
Mode == IF in_session THEN "SessionActive" ELSE "Listening"

\* C25: the terminal loop leaves SessionActive either for MenuActive, the
\* attached session having been detached and being Background, or for
\* Listening, the attached session having been terminated.
C25Claim ==
  [][Mode = "SessionActive" /\ Mode' /= "SessionActive" =>
       \/ /\ Mode' = "MenuActive"
          /\ get_active_session = NoSession
          /\ \E s \in sessions : state[s] = "Background"
       \/ /\ Mode' = "Listening"
          /\ \E s \in created : s \notin sessions \/ state[s] = "Terminated"]_vars

\* The step prints an announcement that s is Background: the tick's
\* "Connection lost" banner or the Esc handler's "Session backgrounded" line.
AnnouncesBackground(s) ==
  \/ OutputTick /\ get_active_session = s /\ Announces(s)
  \/ Typed("esc", s)

\* C26: a tick that finds the attached session Background leaves it announced,
\* and no step announces a session that has been announced and has stayed
\* Background since.
C26Claim ==
  [][\A s \in SessionIds :
       /\ OutputTick /\ get_active_session = s /\ state[s] = "Background"
            => announcedBg'[s]
       /\ AnnouncesBackground(s) => ~announcedBg[s]]_vars

\* C27: start returns an error only when bind failed, and then nothing was
\* accepted and no session exists; a failed accept is logged and leaves the
\* loop running with the registry as it was.
C27Theorem ==
  /\ [](listener.result = "Err" =>
          listener.pc = "returned" /\ listener.log = <<>> /\ created = {})
  /\ [][listener'.log = Append(listener.log, "accept_error") =>
          /\ listener'.pc = "loop"
          /\ listener'.result = "none"
          /\ sessions' = sessions /\ created' = created]_vars

\* After a failed accept the loop has accepted a later connection.
C27Witness ==
  /\ listener.pc = "loop"
  /\ \E i, j \in 1..Len(listener.log) :
       i < j /\ listener.log[i] = "accept_error" /\ listener.log[j] = "accepted"

\* A registration the listener has spawned and that has not returned.
Registering(s) == regPc[s] \in {"inserted", "stabilizing"}

\* C28: accepting a connection leaves the accept loop running, with the new
\* registration in progress and the earlier ones where they were; a
\* registration stops being in progress only by returning, and eventually no
\* registration is in progress any more.
C28Theorem ==
  /\ [][listener'.log = Append(listener.log, "accepted") =>
          /\ listener'.pc = "loop"
          /\ \E s \in SessionIds : ~Registering(s) /\ regPc'[s] = "inserted"
          /\ \A s \in SessionIds : Registering(s) => regPc'[s] = regPc[s]]_vars
  /\ [][\A s \in SessionIds :
          Registering(s) /\ ~Registering(s)' => regPc'[s] = "done"]_vars
  /\ <>[](\A s \in SessionIds : ~Registering(s))

\* A connection has been accepted while an earlier registration was still in
\* progress: two registrations are in progress at once.
C28Witness ==
  /\ listener.pc = "loop"
  /\ \E s, u \in SessionIds : s /= u /\ Registering(s) /\ Registering(u)

\* The ids of a menu list.
Ids(list) == { list[i] : i \in 1..Len(list) }

\* list_sessions, and the menu's get_session_list: the entries of the map.
Listed == sessions

\* A registered session that is Terminated is eventually out of the registry,
\* unless its state changes first.
SweepRemoves ==
  \A s \in SessionIds :
    (s \in Listed /\ state[s] = "Terminated")
      ~> (s \notin Listed \/ state[s] /= "Terminated")

\* Session s has been removed by a sweep, not by a terminate_session call.
Swept(s) == s \in created /\ s \notin sessions /\ termPc[s] = "idle"

C30Safe ==
  [][/\ MenuKill =>
          /\ menu'.pc /= "panicked"
          /\ menu'.killing = SelectedId
          /\ menu'.killing \notin sessions'
     /\ MenuRefresh =>
          /\ menu.killing \notin Ids(menu'.sessions)
          /\ Ids(menu'.sessions) = sessions
          /\ (menu'.pc = "empty") = (menu'.sessions = <<>>)
     /\ MenuQuit => menu'.pc = "returned" /\ menu'.result = None
     /\ menu.pc = "empty" /\ menu' /= menu => MenuQuit]_vars

\* C30: in the menu, Kill terminates the selected session and then re-renders
\* from a refreshed list without it (the empty screen if it was the last);
\* Quit, also on the empty screen, returns none.
C30Claim ==
  /\ C30Safe
  /\ (menu.pc = "killing") ~> (menu.pc \in {"list", "empty"})

\* C35: whenever the foreground pointer is set, the id it holds is a key of
\* the registry map.
C35Claim == active_session /= NoSession => active_session \in sessions

\* C36: every session the sweep's removal step takes out of the registry is
\* Terminated at that moment.
C36Claim ==
  [][CleanupRemove =>
       \A s \in sessions \ sessions' : state[s] = "Terminated"]_vars

\* C39: while the menu shows a list, the cursor is an index of that list.
C39Claim == menu.pc = "list" => SelectedInBounds

\* C40: the id the menu returns on Confirm is registered and not Terminated
\* at the moment the menu returns.
C40Claim ==
  [][MenuConfirm /\ menu'.pc = "returned" =>
       /\ menu'.result[1] \in sessions'
       /\ state'[menu'.result[1]] /= "Terminated"]_vars

\* The registrations that have passed the check of the foreground pointer.
Checked == { s \in SessionIds : regPc[s] \in {"stabilizing", "done"} }

\* C37: of the registrations the listener runs at the same time with no
\* session foreground, exactly one becomes foreground: as soon as one of them
\* has passed the check the pointer names one of those that have, and no
\* later registration overwrites a pointer that is set.
C37Theorem ==
  /\ [](Checked /= {} => active_session \in Checked)
  /\ [][\A id \in SessionIds :
          RegisterSetActive(id) /\ active_session /= NoSession
            => active_session' = active_session]_vars

\* Two registrations were in progress at once and both have passed the
\* check; the one accepted second is the one that became foreground.
C37Witness ==
  /\ Checked = {1, 2}
  /\ active_session = 2
  /\ Registering(1)

\* ------------------------------------------------ the stabilizer's parse
\* What the remote end may have sent, one chunk per read: "Linux version 5"
\* and "myhost", each with its newline, the prompt "root@myhost:~# ", and a
\* user prompt "$ ".
TxtLinuxVersion ==
  << 76, 105, 110, 117, 120, 32, 118, 101, 114, 115, 105, 111, 110, 32, 53 >>
TxtMyhost == << 109, 121, 104, 111, 115, 116 >>
TxtRootPrompt ==
  << 114, 111, 111, 116, 64, 109, 121, 104, 111, 115, 116, 58, 126, 35, 32 >>
ParseChunks ==
  { Append(TxtLinuxVersion, NL), Append(TxtMyhost, NL), TxtRootPrompt,
    TxtDollarPrompt }

\* The chunk sequences of at most MaxParseChunks reads.
ParseOutputs ==
  UNION { [1..n -> ParseChunks] : n \in 0..MaxParseChunks }

\* One connection accepted and registered, all six probes sent and written,
\* the remote end's answers read into the buffer and the output channel, and
\* stabilize_shell about to parse.
ParseInit ==
  \E out \in ParseOutputs :
    /\ sessions = {1}
    /\ created = {1}
    /\ active_session = 1
    /\ state = [s \in SessionIds |-> "Active"]
    /\ stream = [s \in SessionIds |-> "some"]
    /\ reconnect_attempts = [s \in SessionIds |-> 0]
    /\ metadata = [s \in SessionIds |-> UnknownMetadata]
    /\ ioPc = [s \in SessionIds |-> IF s = 1 THEN "select" ELSE "unborn"]
    /\ inputQ = [s \in SessionIds |-> <<>>]
    /\ outputQ = [s \in SessionIds |-> IF s = 1 THEN out ELSE <<>>]
    /\ output_buffer = [s \in SessionIds |-> IF s = 1 THEN out ELSE <<>>]
    /\ regPc = [s \in SessionIds |-> IF s = 1 THEN "stabilizing" ELSE "none"]
    /\ stabPc = [s \in SessionIds |-> IF s = 1 THEN Len(StabilizeCmds) ELSE 0]
    /\ termPc = [s \in SessionIds |-> "idle"]
    /\ cleanupPc = "idle"
    /\ to_remove = {}
    /\ snapshot = << >>
    /\ in_session = FALSE
    /\ lastResult = NoResult
    /\ eventsLeft = 0
    /\ accepted = [s \in SessionIds |-> IF s = 1 THEN StabilizeCmds ELSE <<>>]
    /\ written = [s \in SessionIds |-> IF s = 1 THEN BytesOf(StabilizeCmds) ELSE <<>>]
    /\ produced = [s \in SessionIds |->
                     IF s = 1 THEN [i \in 1..Len(out) |-> as_bytes(out[i])] ELSE <<>>]
    /\ displayed = [s \in SessionIds |-> <<>>]
    /\ scanned = <<>>
    /\ renderer = [in_alternate_screen |-> FALSE, in_raw_mode |-> FALSE]
    /\ tty = [alternate |-> FALSE, raw |-> FALSE]
    /\ should_exit = FALSE
    /\ listener = [pc |-> "loop", result |-> "none", should_stop |-> FALSE,
                   log |-> << "accepted" >>]
    /\ menu = [pc |-> "closed", sessions |-> <<>>, selected |-> 0,
               killing |-> NoSession, result |-> None]
    /\ announcedBg = [s \in SessionIds |-> FALSE]
    /\ disconnects = NoDisconnects
    /\ out_buf = NoOutputBuffer
    /\ out_io = NoOutput
    /\ audit_file = << >>

\* The parse and the return of register_session.
ParseNext ==
  \/ \E id \in SessionIds : StabilizeFinish(id)
  \/ \E id \in SessionIds : RegisterReturn(id)

ParseSpec == ParseInit /\ [][ParseNext]_vars

\* The markers of the privilege rule's first branch.
RootMarker(output) ==
  \/ Contains(output, TxtRootAt) \/ Contains(output, TxtHashPrompt)
  \/ Contains(output, TxtAdministrator) \/ Contains(output, TxtSYSTEM)

\* The captured lines of the example.
ExampleLines == << TxtLinuxVersion, TxtMyhost, TxtRootPrompt >>

\* C32: when the stabilizer parses a capture made of the lines
\* "Linux version 5", "myhost" and "root@myhost:~# " the metadata gets
\* os_type Linux, hostname myhost and privilege Root; and whenever the capture
\* holds a Root marker the privilege is Root, whatever User markers it holds.
C32Theorem ==
  [][\A s \in SessionIds :
       StabilizerEnds(s) =>
         LET output == Flatten(output_buffer[s]) IN
           /\ Lines(output) = ExampleLines
                => /\ metadata'[s].os_type = Some("Linux")
                   /\ metadata'[s].hostname = Some(TxtMyhost)
                   /\ metadata'[s].privilege = "Root"
           /\ RootMarker(output) => metadata'[s].privilege = "Root"]_vars

\* The stabilizer has parsed a capture read in three chunks that make up the
\* example's three lines, and the metadata names the host and Root.
C32Witness ==
  /\ stabPc[1] = Len(StabilizeCmds) + 1
  /\ LET output == from_utf8_lossy(Flatten(produced[1])) IN
       /\ Lines(output) = ExampleLines
       /\ metadata[1].privilege = "Root"
       /\ metadata[1].hostname = Some(TxtMyhost)

\* A call of one of the renderer's transitions.
RendererTransition ==
  \E f \in RenderFaults :
    \/ transition_to_menu(f)
    \/ transition_to_session(f)
    \/ transition_to_listening(f)
    \/ cleanup(f)

\* C33: every change of the terminal's raw mode or alternate screen is made
\* by one of the renderer's transitions.
C33Claim == [][tty' /= tty => RendererTransition]_vars

\* -------------------------------- ShellSession::handle_disconnect, by step
\* The session the calls are made on.
Disconnected == 1

\* handle_disconnect, first statement: the state is set to Background.
DisconnectBegin(c) ==
  /\ disconnects[c].pc = "idle"
  /\ Disconnected \in sessions
  /\ state' = [state EXCEPT ![Disconnected] = "Background"]
  /\ disconnects' = [disconnects EXCEPT ![c].pc = "background"]
  /\ UNCHANGED << sessions, created, active_session, stream, reconnect_attempts,
                  metadata, ioVars, callVars, snapshot, in_session, lastResult,
                  eventsLeft, histVars, rendVars, should_exit, uiVars, out_buf,
                  out_io, audit_file >>
  /\ announcedBg' = StillAnnounced

\* `let attempts = *self.reconnect_attempts.read().await`: the read guard is
\* dropped at the end of the statement.
DisconnectRead(c) ==
  /\ disconnects[c].pc = "background"
  /\ disconnects' = [disconnects EXCEPT ![c].pc = "read",
                                        ![c].attempts = reconnect_attempts[Disconnected]]
  /\ UNCHANGED << sessionVars, ioVars, callVars, snapshot, in_session, lastResult,
                  eventsLeft, histVars, rendVars, should_exit, uiVars, out_buf,
                  out_io, audit_file >>
  /\ announcedBg' = StillAnnounced

\* The branch on the local `attempts`: the counter is written under a new
\* write guard, or the state is set to Terminated.
DisconnectFinish(c) ==
  /\ disconnects[c].pc = "read"
  /\ IF disconnects[c].attempts < max_reconnect_attempts
     THEN /\ reconnect_attempts' =
               [reconnect_attempts EXCEPT ![Disconnected] = disconnects[c].attempts + 1]
          /\ UNCHANGED state
     ELSE /\ state' = [state EXCEPT ![Disconnected] = "Terminated"]
          /\ UNCHANGED reconnect_attempts
  /\ disconnects' = [disconnects EXCEPT ![c].pc = "done"]
  /\ UNCHANGED << sessions, created, active_session, stream, metadata, ioVars,
                  callVars, snapshot, in_session, lastResult, eventsLeft, histVars,
                  rendVars, should_exit, uiVars, out_buf, out_io, audit_file >>
  /\ announcedBg' = StillAnnounced

\* One registered session; up to MaxDisconnects calls of handle_disconnect on
\* it, from any tasks.
DisconnectInit == InitWith(1, {}, 0)

DisconnectNext ==
  \E c \in 1..MaxDisconnects :
    \/ DisconnectBegin(c)
    \/ DisconnectRead(c)
    \/ DisconnectFinish(c)

DisconnectSpec == DisconnectInit /\ [][DisconnectNext]_vars

\* The number of handle_disconnect calls that have returned.
Completed == Cardinality({ c \in 1..MaxDisconnects : disconnects[c].pc = "done" })

\* No handle_disconnect call is between its first and its last statement.
NoneInFlight == \A c \in 1..MaxDisconnects : disconnects[c].pc \in {"idle", "done"}

\* C38: the reconnect counter never exceeds max_reconnect_attempts, and once
\* k calls of handle_disconnect have returned and none is running the counter
\* is min(k, max_reconnect_attempts), the state being Terminated exactly when
\* k exceeds max_reconnect_attempts and Background otherwise.
C38Claim ==
  /\ reconnect_attempts[Disconnected] <= max_reconnect_attempts
  /\ (NoneInFlight /\ Completed > 0) =>
       /\ reconnect_attempts[Disconnected] = Min(Completed, max_reconnect_attempts)
       /\ state[Disconnected] =
            IF Completed > max_reconnect_attempts THEN "Terminated" ELSE "Background"

\* ------------------------------------------------------------ OutputBuffer
\* The strings a caller pushes.
BufItems == {"1", "2"}

\* OutputBuffer::new.
BufNew(max_size) ==
  /\ out_io.pc = "none"
  /\ out_buf' = [buffer |-> << >>, max_size |-> max_size]
  /\ out_io' = [out_io EXCEPT !.pc = "ready"]
  /\ UNCHANGED << sessionVars, ioVars, callVars, snapshot, in_session, lastResult,
                  eventsLeft, histVars, rendVars, should_exit, uiVars, disconnects,
                  audit_file >>
  /\ announcedBg' = StillAnnounced

\* Vec::remove(0); on an empty vector the index is out of range and the call
\* panics.
RemoveOldest(buffer) == Tail(buffer)

\* OutputBuffer::push.
BufPush(output) ==
  /\ out_io.pc = "ready"
  /\ eventsLeft > 0
  /\ eventsLeft' = eventsLeft - 1
  /\ IF Len(out_buf.buffer) >= out_buf.max_size
     THEN IF out_buf.buffer = << >>
          THEN /\ out_io' = [out_io EXCEPT !.pc = "panicked"]
               /\ UNCHANGED out_buf
          ELSE /\ out_buf' = [out_buf EXCEPT
                                !.buffer = Append(RemoveOldest(@), output)]
               /\ out_io' = [out_io EXCEPT !.pushed = Append(@, output)]
     ELSE /\ out_buf' = [out_buf EXCEPT !.buffer = Append(@, output)]
          /\ out_io' = [out_io EXCEPT !.pushed = Append(@, output)]
  /\ UNCHANGED << sessionVars, ioVars, callVars, snapshot, in_session, lastResult,
                  histVars, rendVars, should_exit, uiVars, disconnects, audit_file >>
  /\ announcedBg' = StillAnnounced

\* OutputBuffer::flush_to_stdout: the entries are drained and printed in
\* order, then stdout is flushed; ok is what that flush returns.
BufFlush(ok) ==
  /\ out_io.pc = "ready"
  /\ eventsLeft > 0
  /\ eventsLeft' = eventsLeft - 1
  /\ out_buf' = [out_buf EXCEPT !.buffer = << >>]
  /\ out_io' = [out_io EXCEPT !.stdout = @ \o out_buf.buffer,
                              !.pushed = << >>,
                              !.result = IF ok THEN "Ok" ELSE "Err"]
  /\ UNCHANGED << sessionVars, ioVars, callVars, snapshot, in_session, lastResult,
                  histVars, rendVars, should_exit, uiVars, disconnects, audit_file >>
  /\ announcedBg' = StillAnnounced

\* OutputBuffer::clear.
BufClear ==
  /\ out_io.pc = "ready"
  /\ eventsLeft > 0
  /\ eventsLeft' = eventsLeft - 1
  /\ out_buf' = [out_buf EXCEPT !.buffer = << >>]
  /\ out_io' = [out_io EXCEPT !.pushed = << >>]
  /\ UNCHANGED << sessionVars, ioVars, callVars, snapshot, in_session, lastResult,
                  histVars, rendVars, should_exit, uiVars, disconnects, audit_file >>
  /\ announcedBg' = StillAnnounced

\* An OutputBuffer is made with a max_size up to MaxBufSize and gets
\* MaxBufCalls calls.
BufInit == InitWith(0, {}, MaxBufCalls)

BufNext ==
  \/ \E max_size \in 0..MaxBufSize : BufNew(max_size)
  \/ \E output \in BufItems : BufPush(output)
  \/ \E ok \in BOOLEAN : BufFlush(ok)
  \/ BufClear

BufSpec == BufInit /\ [][BufNext]_vars

\* The last n elements of q, all of q when it has fewer.
LastN(q, n) == IF Len(q) <= n THEN q ELSE SubSeq(q, Len(q) - n + 1, Len(q))

\* The entries a bounded FIFO of the buffer's max_size holds.
Held == LastN(out_io.pushed, out_buf.max_size)

\* The buffer never holds more than max_size entries, and they are the most
\* recently pushed ones in push order; a flush prints them in that order and
\* leaves the buffer empty.
C31Fifo ==
  /\ [](Len(out_buf.buffer) <= out_buf.max_size /\ out_buf.buffer = Held)
  /\ [][(\E ok \in BOOLEAN : BufFlush(ok)) =>
          /\ out_io'.stdout = out_io.stdout \o Held
          /\ out_buf'.buffer = << >>]_vars

\* C31: for every max_size every push returns, and the buffer is that FIFO.
C31Claim == [](out_io.pc /= "panicked") /\ C31Fifo

\* ------------------------------------------------------------- AuditLogger
\* Instants Utc::now() may return, as seconds and nanoseconds: with no
\* fraction, with milliseconds, microseconds and nanoseconds.
AuditNows ==
  { [secs |-> 0, nanos |-> 0], [secs |-> 0, nanos |-> 500000000],
    [secs |-> 1, nanos |-> 1000], [secs |-> 1, nanos |-> 1] }

\* The session ids and targets a caller passes.
AuditSessionIds == { None, Some("session-123") }
AuditTargets == { None, Some("example.com") }

RECURSIVE Pow10(_)
Pow10(n) == IF n = 0 THEN 1 ELSE 10 * Pow10(n - 1)

\* SecondsFormat::AutoSi: the number of fractional digits printed.
FracDigits(nanos) ==
  IF nanos = 0 THEN 0
  ELSE IF nanos % 1000000 = 0 THEN 3
  ELSE IF nanos % 1000 = 0 THEN 6
  ELSE 9

\* DateTime::to_rfc3339 (offset "+00:00") and the serde form (offset "Z"):
\* the seconds, the fraction with its number of digits, the offset.
Rfc3339(ts, offset) ==
  [secs |-> ts.secs, digits |-> FracDigits(ts.nanos),
   frac |-> ts.nanos \div Pow10(9 - FracDigits(ts.nanos)), offset |-> offset]

to_rfc3339(ts) == Rfc3339(ts, "+00:00")

\* Deserialize for DateTime<Utc>: the instant an RFC 3339 text denotes.
ParseRfc3339(text) ==
  [secs |-> text.secs, nanos |-> text.frac * Pow10(9 - text.digits)]

\* Option::as_deref().unwrap_or("").
UnwrapOrEmpty(opt) == IF opt = None THEN "" ELSE opt[1]

\* SHA-256 in lower-case hex, taken to be free of collisions: the digest
\* stands for the text that was hashed.
Sha256(input) == << "sha256", input >>

\* The hash fields that are no digest: String::new() and the literal
\* "genesis".
EmptyString == << >>
Genesis == << "genesis" >>

\* AuditLogger::compute_hash: the digest of the seven fields joined by "|".
compute_hash(entry) ==
  [entry EXCEPT !.current_hash =
     Sha256(<< to_rfc3339(entry.timestamp), UnwrapOrEmpty(entry.session_id),
               entry.event_type, entry.description, entry.operator,
               UnwrapOrEmpty(entry.target), entry.previous_hash >>)]

\* serde_json::to_string of an entry: one line of the file.
ToJson(entry) == [entry EXCEPT !.timestamp = Rfc3339(@, "Z")]

\* serde_json::from_str of a line.
FromJson(line) == [line EXCEPT !.timestamp = ParseRfc3339(@)]

get_last_hash_genesis(file) == Genesis

\* AuditLogger::get_last_hash: the current_hash of the last line, "genesis"
\* when there is none.
get_last_hash(file) ==
  IF file = << >> THEN Genesis ELSE FromJson(file[Len(file)]).current_hash

\* AuditLogger::log: the entry is chained to the last line and appended.
AuditLog(session_id, target, now) ==
  /\ Len(audit_file) < MaxAuditEntries
  /\ audit_file' =
       Append(audit_file,
              ToJson(compute_hash(
                [timestamp |-> now, session_id |-> session_id,
                 event_type |-> "module_execution", description |-> "Executed",
                 operator |-> "operator", target |-> target,
                 result |-> Some("success"),
                 previous_hash |-> get_last_hash(audit_file),
                 current_hash |-> EmptyString])))
  /\ lastResult' = Result("log", NoSession, "Ok")
  /\ UNCHANGED << sessionVars, ioVars, callVars, snapshot, in_session, eventsLeft,
                  histVars, rendVars, should_exit, uiVars, disconnects, out_buf,
                  out_io >>
  /\ announcedBg' = StillAnnounced

\* AuditLogger::read_logs(None).
read_logs(file) == [i \in 1..Len(file) |-> FromJson(file[i])]

RECURSIVE VerifyChain(_, _)
\* The loop of verify_integrity over the entries still to check.
VerifyChain(logs, expected_previous_hash) ==
  IF logs = << >> THEN TRUE
  ELSE IF logs[1].previous_hash /= expected_previous_hash THEN FALSE
  ELSE IF compute_hash([logs[1] EXCEPT !.current_hash = EmptyString]).current_hash
            /= logs[1].current_hash
       THEN FALSE
  ELSE VerifyChain(Tail(logs), logs[1].current_hash)

\* AuditLogger::verify_integrity.
verify_integrity(file) == VerifyChain(read_logs(file), Genesis)

\* A call of verify_integrity.
AuditVerify ==
  /\ lastResult' = Result("verify_integrity", NoSession,
                          IF verify_integrity(audit_file) THEN "true" ELSE "false")
  /\ UNCHANGED << sessionVars, ioVars, callVars, snapshot, in_session, eventsLeft,
                  histVars, rendVars, should_exit, uiVars, libVars >>
  /\ announcedBg' = StillAnnounced

\* An empty log and up to MaxAuditEntries calls of log, one after another.
AuditInit == InitWith(0, {}, 0)

AuditNext ==
  \/ \E session_id \in AuditSessionIds, target \in AuditTargets, now \in AuditNows :
       AuditLog(session_id, target, now)
  \/ AuditVerify

AuditSpec == AuditInit /\ [][AuditNext]_vars

\* C34: after any sequence of log calls on an empty log verify_integrity
\* returns true: the first entry's previous_hash is "genesis", every later
\* entry's previous_hash is the current_hash of the entry before it, and
\* every entry's current_hash is the hash recomputed from its fields.
C34Theorem ==
  LET logs == read_logs(audit_file) IN
    /\ lastResult.op = "verify_integrity" => lastResult.res = "true"
    /\ verify_integrity(audit_file)
    /\ \A i \in 1..Len(logs) :
         /\ logs[i].previous_hash =
              IF i = 1 THEN Genesis ELSE logs[i - 1].current_hash
         /\ logs[i].current_hash =
              compute_hash([logs[i] EXCEPT !.current_hash = EmptyString]).current_hash

\* verify_integrity has returned true on a log of at least two entries, the
\* second written with a nanosecond timestamp.
C34Witness ==
  /\ lastResult = Result("verify_integrity", NoSession, "true")
  /\ Len(audit_file) >= 2
  /\ audit_file[2].timestamp.digits = 9

====
